---- MODULE Spec2Model ----
(***************************************************************************)
(* Province-name reconciliation, three-source merge and cleaning pass of   *)
(* the air-quality dataset creator.                                        *)
(*                                                                         *)
(*   ProvinceMapper  dataset_creator/utils/province_mapper.py              *)
(*   DataMerger      dataset_creator/processors/data_merger.py             *)
(*   DatasetCleaner  dataset_creator/processors/dataset_cleaner.py         *)
(*                                                                         *)
(*   AirQualityProcessor  dataset_creator/processors/AirQualityProcessor.py*)
(*   SocioeconomicProcessor  database/processors/SocioeconomicProcessor.py *)
(*                                                                         *)
(*   HealthProcessor  dataset_creator/processors/health_processor.py       *)
(*                                                                         *)
(* Each component has its own specification over the shared variables:     *)
(* Spec (ProvinceMapper), MergeSpec (DataMerger), CleanSpec                *)
(* (DatasetCleaner), ProcSpec (one of the three processors, whichever the  *)
(* run constructs), RunSpec (run_data_processing of main.py, all stages    *)
(* in sequence).  The variables of the other components stay at their      *)
(* initial value.                                                          *)
(***************************************************************************)
EXTENDS Integers, Sequences, FiniteSets, TLC

VARIABLES
    source,                 \* unified_province_name.json on disk
    unified_province_dict,  \* ProvinceMapper.unified_province_dict (class-level cache)
    reads,                  \* number of json.load reads of the mapping file
    df_in,                  \* the table as passed to the last map_province_name call
    df,                     \* the caller's table object after the last call
    ret,                    \* value returned by the last call
    outcome,                \* how the last map_province_name call ended
    loadResult,             \* how _load_json_file ended inside the last call
    dictAtCall,             \* the cache as the last call found it
    warned,                 \* provinces reported by _check_provinces in the last call
    airquality_df,          \* merge_all_data argument
    health_df,              \* merge_all_data argument
    socioeconomic_df,       \* merge_all_data argument
    merge_args,             \* the three arguments as passed to merge_all_data
    merged_df,              \* value returned by merge_all_data
    mergeOutcome,           \* how merge_all_data ended
    joins,                  \* number of pd.merge joins performed by the call
    dataset_in,             \* clean_dataset argument
    dataset,                \* DatasetCleaner._dataset
    cleanPc,                \* position inside clean_dataset
    nullBranch,             \* branch taken by _remove_null_provinces
    cleanLog,               \* dataset after each step of clean_dataset
    recleaned,              \* value returned by clean_dataset called on its own result
    aq_file,                \* air_quality_with_province.csv in the raw data folder
    air_quality_df,         \* AirQualityProcessor._air_quality_df
    aq_before,              \* _air_quality_df as the last call found it
    aq_last,                \* the last AirQualityProcessor operation
    aq_outcome,             \* how that operation ended
    socio_file,             \* "PIB per cap provincias 2000-2021.csv" in the raw data folder
    socio_df,               \* SocioeconomicProcessor._socioeconomic_df
    socio_before,           \* _socioeconomic_df as the last call found it
    socio_last,             \* the last SocioeconomicProcessor operation
    socio_outcome,          \* how that operation ended
    resp_file,              \* enfermedades_respiratorias.csv in the raw data folder
    life_file,              \* esperanza_vida.csv in the raw data folder
    respiratory_diseases_df,\* HealthProcessor._respiratory_diseases_df
    life_expectancy_df,     \* HealthProcessor._life_expectancy_df
    hp_health_df,           \* HealthProcessor._health_df
    health_before,          \* the three tables as the last call found them
    health_last,            \* the last HealthProcessor operation
    health_outcome,         \* how that operation ended
    processor,              \* the processor object the run has constructed
    processed_file,         \* the file of the processed folder that processor writes
    run_pc,                 \* the stage run_data_processing is about to invoke
    run_calls,              \* the stages run_data_processing has invoked, in order
    run_error,              \* the stage that raised and its exception
    run_files               \* the files run_data_processing has written

mapperVars == <<source, unified_province_dict, reads, df_in, df, ret,
                outcome, loadResult, dictAtCall, warned>>
mergeVars  == <<airquality_df, health_df, socioeconomic_df, merge_args,
                merged_df, mergeOutcome, joins>>
cleanVars  == <<dataset_in, dataset, cleanPc, nullBranch, cleanLog, recleaned>>
airVars    == <<aq_file, air_quality_df, aq_before, aq_last, aq_outcome>>
socioVars  == <<socio_file, socio_df, socio_before, socio_last, socio_outcome>>
healthVars == <<resp_file, life_file, respiratory_diseases_df, life_expectancy_df,
                hp_health_df, health_before, health_last, health_outcome>>
runVars    == <<run_pc, run_calls, run_error, run_files>>
procVars   == <<airVars, socioVars, healthVars, processor, processed_file, runVars>>
vars == <<mapperVars, mergeVars, cleanVars, procVars>>

(***************************************************************************)
(* Values.  A missing cell (NaN / None) of a text column is NULL; a        *)
(* missing cell of a numeric column is NaN.                                *)
(***************************************************************************)
NULL == "<NA>"
NaN  == 0 - 1

RECURSIVE SeqsUpTo(_, _)
\* all sequences over S of length 0..n
SeqsUpTo(S, n) ==
    IF n = 0 THEN {<<>>}
    ELSE LET shorter == SeqsUpTo(S, n - 1)
         IN  shorter \cup {Append(s, x) : s \in {t \in shorter : Len(t) = n - 1}, x \in S}

(***************************************************************************)
(*                           ProvinceMapper                                *)
(***************************************************************************)

\* Bounds of the mapper model.
MaxHead  == 2   \* mapping entries that carry aliases
MaxCells == 1   \* rows of a table handed to map_province_name

\* The cardinality the loader insists on.
ExpectedProvinces == 52

\* Canonical names of the entries that carry aliases, in file order.
CanonicalNames == <<"Ciudad Real", "Las Palmas", "Madrid">>

\* Strings that may be listed as aliases.  "Las Palmas" is both a canonical
\* name and a possible alias of another entry.
AliasAlphabet == {"CiudadReal", "Las Palmas"}

\* Strings a Province cell may hold.
CellAlphabet == {"CiudadReal", "Las Palmas", "something", NULL}

\* The mapping file's content: `head` are the first entries of the JSON
\* object in file order (canonical name -> alias list); the remaining
\* n - Len(head) entries have names outside CellAlphabet and empty alias
\* lists, so they only count towards len(dict.keys()).
MappingTables ==
    { [loaded |-> TRUE, n |-> n, head |-> h] :
        n \in {ExpectedProvinces - 1, ExpectedProvinces, ExpectedProvinces + 1},
        h \in UNION { [1..k -> [province : {"?"}, aliases : SUBSET AliasAlphabet]]
                      : k \in 0..MaxHead } }

\* head entries take their canonical name from their position
Named(t) ==
    [t EXCEPT !.head = [i \in 1..Len(t.head) |->
                          [province |-> CanonicalNames[i], aliases |-> t.head[i].aliases]]]

\* unified_province_dict = None
NoDict == [loaded |-> FALSE, n |-> 0, head |-> <<>>]

\* file absent, or present with some mapping
Sources == {[present |-> FALSE, table |-> NoDict]}
           \cup {[present |-> TRUE, table |-> Named(t)] : t \in MappingTables}

\* tables handed to map_province_name
NoFrame == [hasProvince |-> FALSE, cells |-> <<>>]
Frames == {NoFrame} \cup [hasProvince : {TRUE}, cells : SeqsUpTo(CellAlphabet, MaxCells)]

\* len(unified_province_dict.keys())
num_provinces(d) == d.n

\* all aliases of the table
Aliases(d) == UNION {d.head[i].aliases : i \in 1..Len(d.head)}

\* official_names within the cell alphabet
official_names(d) == {d.head[i].province : i \in 1..Len(d.head)}

\* province_mapping: the dict comprehension walks the entries in file order
\* and a later entry overwrites an earlier one's alias.
province_mapping(d) ==
    [a \in Aliases(d) |->
        LET owners == {i \in 1..Len(d.head) : a \in d.head[i].aliases}
            last   == CHOOSE i \in owners : \A j \in owners : j <= i
        IN  d.head[last].province]

\* a conversion that leaves a missing cell missing
astype_str_missing_kept(c) == c

\* Series.astype(str): a missing cell becomes the text 'nan'
astype_str(c) == IF c = NULL THEN "nan" ELSE c

\* Series.map-like lookup: a cell without an entry is lost
replace_unmapped_lost(m, c) == IF c \in DOMAIN m THEN m[c] ELSE NULL

\* Series.replace(mapping): every cell is looked up once in the mapping
\* (the replacements are not chained); other cells are kept.
replace(m, c) == IF c \in DOMAIN m THEN m[c] ELSE c

\* a loader that does not consult the cache
load_json_file_uncached(cache, src) ==
    IF ~src.present THEN
        [dict |-> cache, read |-> 0, result |-> "FileNotFoundError"]
    ELSE IF num_provinces(src.table) # ExpectedProvinces THEN
        [dict |-> src.table, read |-> 1, result |-> "ValueError"]
    ELSE
        [dict |-> src.table, read |-> 1, result |-> "ok"]

\* lines 30-40: the read is skipped when the cache is set; the cache is
\* assigned before the cardinality is validated.
load_json_file(cache, src) ==
    IF cache.loaded THEN
        [dict |-> cache, read |-> 0, result |-> "ok"]
    ELSE IF ~src.present THEN
        [dict |-> cache, read |-> 0, result |-> "FileNotFoundError"]
    ELSE IF num_provinces(src.table) # ExpectedProvinces THEN
        [dict |-> src.table, read |-> 1, result |-> "ValueError"]
    ELSE
        [dict |-> src.table, read |-> 1, result |-> "ok"]

\* lines 87-95: the unrecognized names that are logged
check_provinces(d, cells) ==
    {cells[i] : i \in 1..Len(cells)} \ (official_names(d) \cup Aliases(d))

\* a call that fetches the alias table before it looks at the columns
map_province_name_load_first(d) ==
    /\ df_in' = d
    /\ dictAtCall' = unified_province_dict
    /\ UNCHANGED source
    /\ LET l == load_json_file(unified_province_dict, source) IN
       /\ unified_province_dict' = l.dict
       /\ reads' = reads + l.read
       /\ loadResult' = l.result
       /\ IF l.result # "ok" THEN
             /\ outcome' = l.result
             /\ df' = d
             /\ ret' = NoFrame
             /\ warned' = {}
          ELSE IF ~d.hasProvince THEN
             /\ outcome' = "KeyError"
             /\ df' = d
             /\ ret' = NoFrame
             /\ warned' = {}
          ELSE
             LET m   == province_mapping(l.dict)
                 out == [d EXCEPT !.cells =
                           [i \in 1..Len(d.cells) |-> replace(m, astype_str(d.cells[i]))]]
             IN  /\ outcome' = "ok"
                 /\ df' = out
                 /\ ret' = out
                 /\ warned' = check_provinces(l.dict, out.cells)

\* lines 57-75
map_province_name(d) ==
    /\ df_in' = d
    /\ dictAtCall' = unified_province_dict
    /\ UNCHANGED source
    /\ IF ~d.hasProvince THEN
          /\ outcome' = "KeyError"
          /\ loadResult' = "not called"
          /\ df' = d
          /\ ret' = NoFrame
          /\ warned' = {}
          /\ UNCHANGED <<unified_province_dict, reads>>
       ELSE
          LET l == load_json_file(unified_province_dict, source) IN
          /\ unified_province_dict' = l.dict
          /\ reads' = reads + l.read
          /\ loadResult' = l.result
          /\ IF l.result # "ok" THEN
                /\ outcome' = l.result
                /\ df' = d
                /\ ret' = NoFrame
                /\ warned' = {}
             ELSE
                LET m   == province_mapping(l.dict)
                    out == [d EXCEPT !.cells =
                              [i \in 1..Len(d.cells) |-> replace(m, astype_str(d.cells[i]))]]
                IN  /\ outcome' = "ok"
                    /\ df' = out
                    /\ ret' = out
                    /\ warned' = check_provinces(l.dict, out.cells)

MapperInit ==
    /\ source \in Sources
    /\ unified_province_dict = NoDict
    /\ reads = 0
    /\ df_in = NoFrame
    /\ df = NoFrame
    /\ ret = NoFrame
    /\ outcome = "none"
    /\ loadResult = "not called"
    /\ dictAtCall = NoDict
    /\ warned = {}

MapperIdle ==
    /\ source = [present |-> FALSE, table |-> NoDict]
    /\ unified_province_dict = NoDict
    /\ reads = 0
    /\ df_in = NoFrame
    /\ df = NoFrame
    /\ ret = NoFrame
    /\ outcome = "none"
    /\ loadResult = "not called"
    /\ dictAtCall = NoDict
    /\ warned = {}

MergeIdle ==
    /\ airquality_df = <<>>
    /\ health_df = <<>>
    /\ socioeconomic_df = <<>>
    /\ merge_args = <<>>
    /\ merged_df = <<>>
    /\ mergeOutcome = "none"
    /\ joins = 0

CleanIdle ==
    /\ dataset_in = [dtype |-> "int64", rows |-> <<>>]
    /\ dataset = [dtype |-> "int64", rows |-> <<>>]
    /\ cleanPc = "idle"
    /\ nullBranch = "none"
    /\ cleanLog = <<>>
    /\ recleaned = [dtype |-> "int64", rows |-> <<>>]

AirIdle ==
    /\ aq_file = [present |-> FALSE, rows |-> <<>>]
    /\ air_quality_df = [isNone |-> TRUE, cols |-> {}, rows |-> <<>>]
    /\ aq_before = [isNone |-> TRUE, cols |-> {}, rows |-> <<>>]
    /\ aq_last = "none"
    /\ aq_outcome = "none"

SocioIdle ==
    /\ socio_file = [present |-> FALSE, cols |-> <<>>, rows |-> <<>>]
    /\ socio_df = [isNone |-> TRUE, cols |-> <<>>, rows |-> <<>>]
    /\ socio_before = [isNone |-> TRUE, cols |-> <<>>, rows |-> <<>>]
    /\ socio_last = "none"
    /\ socio_outcome = "none"

HealthIdle ==
    /\ resp_file = [present |-> FALSE, rows |-> <<>>]
    /\ life_file = [present |-> FALSE, rows |-> <<>>]
    /\ respiratory_diseases_df = [isNone |-> TRUE, cols |-> <<>>, rows |-> <<>>]
    /\ life_expectancy_df = [isNone |-> TRUE, cols |-> <<>>, rows |-> <<>>]
    /\ hp_health_df = [isNone |-> TRUE, cols |-> <<>>, rows |-> <<>>]
    /\ health_before = <<>>
    /\ health_last = "none"
    /\ health_outcome = "none"

RunIdle ==
    /\ run_pc = "idle"
    /\ run_calls = <<>>
    /\ run_error = [stage |-> "none", exception |-> "none"]
    /\ run_files = {}

ProcIdle ==
    /\ AirIdle /\ SocioIdle /\ HealthIdle
    /\ processor = "none"
    /\ processed_file = [written |-> FALSE, cols |-> <<>>, rows |-> <<>>]
    /\ RunIdle

MapProvinceName ==
    /\ \E d \in Frames : map_province_name(d)
    /\ UNCHANGED <<mergeVars, cleanVars, procVars>>

\* A caller hands the table a call returned to map_province_name again.
MapProvinceNameAgain ==
    /\ outcome = "ok"
    /\ map_province_name(ret)
    /\ UNCHANGED <<mergeVars, cleanVars, procVars>>

Init == MapperInit /\ MergeIdle /\ CleanIdle /\ ProcIdle
Next == MapProvinceName \/ MapProvinceNameAgain
Spec == Init /\ [][Next]_vars

(***************************************************************************)
(*                              DataMerger                                 *)
(***************************************************************************)

\* Bounds of the merge model: rows per input table.
MaxAirRows    == 2
MaxHealthRows == 2
MaxSocioRows  == 2

\* (Province, year) keys of the input rows; a missing Province is a key too.
MergeKeys == {<<"Madrid", 2005>>, <<"Madrid", 2006>>, <<NULL, 2005>>}

AirCols    == {"Province", "Year", "Air Pollution Level"}
HealthCols == {"Province", "Periodo", "Respiratory_diseases_total", "Life_expectancy_total"}
SocioCols  == {"Province", "anio", "pib"}

AirRows ==
    { [c \in AirCols |-> IF c = "Province" THEN k[1] ELSE IF c = "Year" THEN k[2] ELSE 40]
      : k \in MergeKeys }
\* the metrics of a secondary row tell its year and its province status
HealthRows ==
    { [Province |-> k[1], Periodo |-> k[2],
       Respiratory_diseases_total |-> (k[2] - 2000) * 10 + (IF k[1] = NULL THEN 1 ELSE 0),
       Life_expectancy_total |-> 80]
      : k \in MergeKeys }
SocioRows ==
    { [Province |-> k[1], anio |-> k[2],
       pib |-> (k[2] - 2000) * 100 + (IF k[1] = NULL THEN 1 ELSE 0)]
      : k \in MergeKeys }

\* a row without the columns outside `cols`
Restrict(r, cols) == [c \in cols |-> r[c]]

\* a table: the column names and the rows in order
Table(cols, rows) == [cols |-> cols, rows |-> rows]
NoTable == Table({}, <<>>)

\* tables with every column, and one-row tables that lack key columns
TablesOf(cols, keys, rowset, n) ==
    { Table(cols, rs) : rs \in SeqsUpTo(rowset, n) }
    \cup { Table(cols \ missing, <<Restrict(CHOOSE r \in rowset : TRUE, cols \ missing)>>)
           : missing \in (SUBSET keys) \ {{}} }

AirTables    == TablesOf(AirCols, {"Province", "Year"}, AirRows, MaxAirRows)
HealthTables == TablesOf(HealthCols, {"Province", "Periodo"}, HealthRows, MaxHealthRows)
SocioTables  == TablesOf(SocioCols, {"Province", "anio"}, SocioRows, MaxSocioRows)

\* a validation that forgets the socioeconomic table
validate_merge_columns_no_socio(a, h, s) ==
    IF {"Province", "Year"} \ a.cols # {} THEN "ValueError"
    ELSE IF {"Province", "Periodo"} \ h.cols # {} THEN "ValueError"
    ELSE "ok"

\* lines 144-172: the first table that lacks a required column raises
validate_merge_columns(a, h, s) ==
    IF {"Province", "Year"} \ a.cols # {} THEN "ValueError"
    ELSE IF {"Province", "Periodo"} \ h.cols # {} THEN "ValueError"
    ELSE IF {"Province", "anio"} \ s.cols # {} THEN "ValueError"
    ELSE "ok"

\* the right rows whose key equals the left row's key, in right order
\* (pandas matches a missing key with a missing key)
Matches(l, right, left_on, right_on) ==
    SelectSeq(right.rows,
              LAMBDA r : \A i \in 1..Len(left_on) : r[right_on[i]] = l[left_on[i]])

\* a left row extended with a right row's columns
Combine(l, r) ==
    [c \in DOMAIN l \cup DOMAIN r |-> IF c \in DOMAIN l THEN l[c] ELSE r[c]]

\* a right row of missing values
NaNRow(cols) == [c \in cols |-> IF c = "Province" THEN NULL ELSE NaN]

RECURSIVE JoinRows(_, _, _, _, _)
\* the rows of pd.merge(how='left'): left order, then right order per key
JoinRows(lrows, right, left_on, right_on, keepUnmatched) ==
    IF lrows = <<>> THEN <<>>
    ELSE LET l  == Head(lrows)
             ms == Matches(l, right, left_on, right_on)
             out == IF ms = <<>>
                    THEN IF keepUnmatched THEN <<Combine(l, NaNRow(right.cols))>> ELSE <<>>
                    ELSE [i \in 1..Len(ms) |-> Combine(l, ms[i])]
         IN  out \o JoinRows(Tail(lrows), right, left_on, right_on, keepUnmatched)

\* pd.merge(how='inner'): an unmatched left row is lost
pd_merge_inner(left, right, left_on, right_on) ==
    Table(left.cols \cup right.cols,
          JoinRows(left.rows, right, left_on, right_on, FALSE))

\* a left join that attaches only the first match of a key
pd_merge_first(left, right, left_on, right_on) ==
    LET firsts == [right EXCEPT !.rows =
                     SelectSeq([i \in 1..Len(right.rows) |-> <<i, right.rows[i]>>],
                               LAMBDA p : \A j \in 1..(p[1] - 1) :
                                   \E c \in 1..Len(right_on) :
                                       right.rows[j][right_on[c]] # p[2][right_on[c]])]
        first_rows == [i \in 1..Len(firsts.rows) |-> firsts.rows[i][2]]
    IN  Table(left.cols \cup right.cols,
              JoinRows(left.rows, [right EXCEPT !.rows = first_rows],
                       left_on, right_on, TRUE))

\* lines 119-134: pd.merge(left, right, left_on, right_on, how='left')
pd_merge(left, right, left_on, right_on) ==
    Table(left.cols \cup right.cols,
          JoinRows(left.rows, right, left_on, right_on, TRUE))

\* a clean-up that forgets the socioeconomic year column
drop_periodo_only(t) ==
    Table(t.cols \ {"Periodo"},
          [i \in 1..Len(t.rows) |-> Restrict(t.rows[i], t.cols \ {"Periodo"})])

\* line 137: merged_df.drop(columns=['Periodo', 'anio'], errors='ignore')
drop_columns(t) ==
    Table(t.cols \ {"Periodo", "anio"},
          [i \in 1..Len(t.rows) |-> Restrict(t.rows[i], t.cols \ {"Periodo", "anio"})])

\* pd.merge raises KeyError when a key column is absent
HasKeys(left, right, left_on, right_on) ==
    /\ \A i \in 1..Len(left_on) : left_on[i] \in left.cols
    /\ \A i \in 1..Len(right_on) : right_on[i] \in right.cols

\* lines 112-142: validation, the two left joins, the clean-up
merge_all_data(a, h, s) ==
    IF validate_merge_columns(a, h, s) # "ok" THEN
        [outcome |-> "ValueError", joins |-> 0, result |-> NoTable]
    ELSE IF ~HasKeys(a, h, <<"Province", "Year">>, <<"Province", "Periodo">>) THEN
        [outcome |-> "KeyError", joins |-> 0, result |-> NoTable]
    ELSE LET m1 == pd_merge(a, h, <<"Province", "Year">>, <<"Province", "Periodo">>) IN
         IF ~HasKeys(m1, s, <<"Province", "Year">>, <<"Province", "anio">>) THEN
             [outcome |-> "KeyError", joins |-> 1, result |-> NoTable]
         ELSE LET m2 == pd_merge(m1, s, <<"Province", "Year">>, <<"Province", "anio">>) IN
              [outcome |-> "ok", joins |-> 2, result |-> drop_columns(m2)]

MergeInputs ==
    /\ airquality_df \in AirTables
    /\ health_df \in HealthTables
    /\ socioeconomic_df \in SocioTables
    /\ merge_args = <<>>
    /\ merged_df = NoTable
    /\ mergeOutcome = "none"
    /\ joins = 0

MergeAllData ==
    /\ mergeOutcome = "none"
    /\ LET m == merge_all_data(airquality_df, health_df, socioeconomic_df) IN
        /\ merge_args' = <<airquality_df, health_df, socioeconomic_df>>
        /\ mergeOutcome' = m.outcome
        /\ joins' = m.joins
        /\ merged_df' = m.result
        /\ UNCHANGED <<airquality_df, health_df, socioeconomic_df>>
    /\ UNCHANGED <<mapperVars, cleanVars, procVars>>

MergeNext == MergeAllData
MergeInit == MapperIdle /\ MergeInputs /\ CleanIdle /\ ProcIdle
MergeSpec == MergeInit /\ [][MergeNext]_vars

(***************************************************************************)
(*                            DatasetCleaner                               *)
(***************************************************************************)

\* Bound of the cleaner model: rows of free content at the top of a table.
MaxCleanHead == 2

\* isnull().mean() * 100 is compared with this percentage
NullThreshold == 5

\* first and last calendar year that is kept
FirstYear == 2000
LastYear  == 2022

island_provinces == {"Santa Cruz de Tenerife", "Las Palmas", "Illes Balears", "Ceuta", "Melilla"}
undefined_provinces == {"Desconocido", "Error"}

\* Province and calendar year of the free rows
CleanProvinces == {"Madrid", "Ceuta", "Error", "something", NULL}
CleanYears == {FirstYear - 1, FirstYear, LastYear, LastYear + 1}

\* the free rows: every province in an in-range year, Madrid in every
\* year, and an excluded and a missing province in out-of-range years
FreeRows ==
    (CleanProvinces \X {FirstYear}) \cup ({"Madrid"} \X CleanYears)
    \cup {<<"Ceuta", LastYear + 1>>, <<NULL, FirstYear - 1>>}

\* number of in-scope rows (Madrid, 2005) that follow the free rows; the
\* sizes put one, two or three missing provinces at, just below and above
\* NullThreshold percent of the table
PadSizes == {0, 18, 19, 20, 38, 39, 57, 58}

\* a Year cell: an integer, or a date (year, month, day) in a datetime column
YearCell(dtype, y) == IF dtype = "datetime64" THEN <<y, 12, 31>> ELSE y

\* the input tables: free rows, then the padding; Value numbers the rows
CleanInputs ==
    { [dtype |-> t,
       rows  |-> [i \in 1..(Len(h) + n) |->
                    IF i <= Len(h)
                    THEN [Province |-> h[i][1], Year |-> YearCell(t, h[i][2]), Value |-> i]
                    ELSE [Province |-> "Madrid", Year |-> YearCell(t, 2005), Value |-> i]]]
      : t \in {"int64", "datetime64"},
        h \in SeqsUpTo(FreeRows, MaxCleanHead),
        n \in PadSizes }

NoDataset == [dtype |-> "int64", rows |-> <<>>]

\* number of rows with a missing Province
NullCount(rows) == Cardinality({i \in 1..Len(rows) : rows[i].Province = NULL})

\* a threshold test that also drops at exactly the threshold
remove_null_provinces_le(ds) ==
    LET n == Len(ds.rows)
        z == NullCount(ds.rows)
    IN  IF n > 0 /\ z = 0 THEN
            [ds |-> ds, branch |-> "none found"]
        ELSE IF n > 0 /\ z * 100 <= NullThreshold * n THEN
            [ds |-> [ds EXCEPT !.rows = SelectSeq(ds.rows, LAMBDA r : r.Province # NULL)],
             branch |-> "removed"]
        ELSE
            [ds |-> ds, branch |-> "warning"]

\* lines 69-81: null_province_percentage = isnull().mean() * 100 is z/n*100
\* (NaN for an empty table, which fails both comparisons)
remove_null_provinces(ds) ==
    LET n == Len(ds.rows)
        z == NullCount(ds.rows)
    IN  IF n > 0 /\ z = 0 THEN
            [ds |-> ds, branch |-> "none found"]
        ELSE IF n > 0 /\ z * 100 < NullThreshold * n THEN
            [ds |-> [ds EXCEPT !.rows = SelectSeq(ds.rows, LAMBDA r : r.Province # NULL)],
             branch |-> "removed"]
        ELSE
            [ds |-> ds, branch |-> "warning"]

\* lines 83-91
remove_island_observations(ds) ==
    [ds EXCEPT !.rows = SelectSeq(ds.rows, LAMBDA r : r.Province \notin island_provinces)]

\* an exclusion list that misses the 'Error' sentinel
remove_undefined_provinces_no_error(ds) ==
    [ds EXCEPT !.rows = SelectSeq(ds.rows, LAMBDA r : r.Province # "Desconocido")]

\* lines 93-101
remove_undefined_provinces(ds) ==
    [ds EXCEPT !.rows = SelectSeq(ds.rows, LAMBDA r : r.Province \notin undefined_provinces)]

\* Series.dt.year
dt_year(v) == v[1]

\* a date column compared with the dates 2000-01-01 and 2022-01-01
filter_timeframe_dates(ds) ==
    IF ds.dtype = "datetime64"
    THEN [ds EXCEPT !.rows = SelectSeq(ds.rows,
            LAMBDA r : FirstYear <= dt_year(r.Year)
                       /\ (dt_year(r.Year) < LastYear \/ r.Year = <<LastYear, 1, 1>>))]
    ELSE [ds EXCEPT !.rows = SelectSeq(ds.rows,
            LAMBDA r : FirstYear <= r.Year /\ r.Year <= LastYear)]

\* an upper bound one year too late
filter_timeframe_late(ds) ==
    IF ds.dtype = "datetime64"
    THEN [ds EXCEPT !.rows = SelectSeq(ds.rows,
            LAMBDA r : FirstYear <= dt_year(r.Year) /\ dt_year(r.Year) <= LastYear + 1)]
    ELSE [ds EXCEPT !.rows = SelectSeq(ds.rows,
            LAMBDA r : FirstYear <= r.Year /\ r.Year <= LastYear + 1)]

\* a filter that hands the kept rows back in reverse order
filter_timeframe_reversed(ds) ==
    LET kept == IF ds.dtype = "datetime64"
                THEN SelectSeq(ds.rows,
                       LAMBDA r : FirstYear <= dt_year(r.Year) /\ dt_year(r.Year) <= LastYear)
                ELSE SelectSeq(ds.rows,
                       LAMBDA r : FirstYear <= r.Year /\ r.Year <= LastYear)
    IN  [ds EXCEPT !.rows = [i \in 1..Len(kept) |-> kept[Len(kept) + 1 - i]]]

\* lines 103-117: between(2000, 2022) is inclusive at both ends
filter_timeframe(ds) ==
    IF ds.dtype = "datetime64"
    THEN [ds EXCEPT !.rows = SelectSeq(ds.rows,
            LAMBDA r : FirstYear <= dt_year(r.Year) /\ dt_year(r.Year) <= LastYear)]
    ELSE [ds EXCEPT !.rows = SelectSeq(ds.rows,
            LAMBDA r : FirstYear <= r.Year /\ r.Year <= LastYear)]

\* lines 58-67: the copy, the four steps in order, the return
clean_dataset(d) ==
    LET s1 == remove_null_provinces(d)
        s2 == remove_island_observations(s1.ds)
        s3 == remove_undefined_provinces(s2)
        s4 == filter_timeframe(s3)
    IN  /\ dataset' = s4
        /\ nullBranch' = s1.branch
        /\ cleanLog' = <<s1.ds, s2, s3, s4>>
        /\ cleanPc' = "done"
        /\ UNCHANGED <<dataset_in, recleaned>>

\* A caller hands the table clean_dataset returned to clean_dataset again.
clean_dataset_again(d) ==
    LET s1 == remove_null_provinces(d)
        s2 == remove_island_observations(s1.ds)
        s3 == remove_undefined_provinces(s2)
        s4 == filter_timeframe(s3)
    IN  /\ recleaned' = s4
        /\ cleanPc' = "again"
        /\ UNCHANGED <<dataset_in, dataset, nullBranch, cleanLog>>

CleanStart ==
    /\ dataset_in \in CleanInputs
    /\ dataset = NoDataset
    /\ cleanPc = "idle"
    /\ nullBranch = "none"
    /\ cleanLog = <<>>
    /\ recleaned = NoDataset

CleanDataset ==
    /\ cleanPc = "idle"
    /\ clean_dataset(dataset_in)
    /\ UNCHANGED <<mapperVars, mergeVars, procVars>>

CleanDatasetAgain ==
    /\ cleanPc = "done"
    /\ clean_dataset_again(dataset)
    /\ UNCHANGED <<mapperVars, mergeVars, procVars>>

CleanNext == CleanDataset \/ CleanDatasetAgain
CleanInit == MapperIdle /\ MergeIdle /\ CleanStart /\ ProcIdle
CleanSpec == CleanInit /\ [][CleanNext]_vars

(***************************************************************************)
(*                        AirQualityProcessor                              *)
(*                                                                         *)
(* A table is [isNone, cols, rows]; isNone is the Python None.  The raw    *)
(* file holds the columns Air Pollutant and Air Pollution Level; the       *)
(* other columns of _COLUMN_DTYPES take no part in classify_quality.       *)
(***************************************************************************)
MaxAqRows == 2

quality_labels ==
    <<"BUENA", "RAZONABLEMENTE BUENA", "REGULAR", "DESFAVORABLE",
      "MUY DESFAVORABLE", "EXTREMADAMENTE DESFAVORABLE">>

\* The finite edges of each list; the seventh edge of every list is np.inf.
quality_thresholds ==
    [p \in {"so2", "pm2.5", "pm10", "o3", "no2"} |->
        CASE p = "so2"   -> <<0, 100, 200, 350, 500, 750>>
          [] p = "pm2.5" -> <<0, 10, 20, 25, 50, 75>>
          [] p = "pm10"  -> <<0, 20, 40, 50, 100, 150>>
          [] p = "o3"    -> <<0, 50, 100, 130, 240, 380>>
          [] p = "no2"   -> <<0, 40, 90, 120, 230, 340>>]

AqPollutants == {"NO2", "pm10", "co"}
AqLevels == {0, 40, 41, 340, 341, NaN}
RawAqCols == {"Air Pollutant", "Air Pollution Level"}
AqCols == RawAqCols \cup {"Quality"}

AqRow(p, v) == [c \in RawAqCols |-> IF c = "Air Pollutant" THEN p ELSE v]
RawAqRows == {AqRow(p, v) : p \in AqPollutants, v \in AqLevels}
PresetLabel == "LOW"
WithQuality(r, q) ==
    [c \in DOMAIN r \cup {"Quality"} |-> IF c = "Quality" THEN q ELSE r[c]]

NoneFrame == [isNone |-> TRUE, cols |-> {}, rows |-> <<>>]
AqFrame(cols, rows) == [isNone |-> FALSE, cols |-> cols, rows |-> rows]
AqFiles ==
    {[present |-> FALSE, rows |-> <<>>]}
        \cup {[present |-> TRUE, rows |-> rs] : rs \in SeqsUpTo(RawAqRows, MaxAqRows)}
\* Tables a caller assigns to _air_quality_df directly: None, an empty
\* table, a table that already carries a Quality column.
AssignedFrames ==
    {NoneFrame, AqFrame({}, <<>>)}
        \cup {AqFrame(AqCols, [i \in 1..Len(rs) |-> WithQuality(rs[i], PresetLabel)]) :
                rs \in SeqsUpTo(RawAqRows, MaxAqRows) \ {<<>>}}

is_loaded(f) == ~f.isNone /\ Len(f.rows) > 0

str_lower(p) ==
    CASE p = "NO2" -> "no2"
      [] p = NULL  -> NULL
      [] OTHER     -> p

\* pd.cut([value], bins, labels)[0] with the default right = TRUE: bucket i
\* is (bins[i], bins[i+1]], the last one (bins[6], inf]; a value outside
\* every bucket, or NaN, is NaN.
pd_cut(value, bins, labels) ==
    IF value = NaN \/ value <= bins[1] THEN NULL
    ELSE labels[CHOOSE i \in 1..Len(bins) :
                    /\ bins[i] < value
                    /\ (i < Len(bins) => value <= bins[i + 1])]

get_quality_bucket_default(row) ==
    LET pollutant == row["Air Pollutant"]
        value == row["Air Pollution Level"] IN
    IF pollutant \in DOMAIN quality_thresholds
    THEN pd_cut(value, quality_thresholds[pollutant], quality_labels)
    ELSE quality_labels[1]

get_quality(row) ==
    LET pollutant == row["Air Pollutant"]
        value == row["Air Pollution Level"] IN
    IF pollutant \in DOMAIN quality_thresholds
    THEN pd_cut(value, quality_thresholds[pollutant], quality_labels)
    ELSE "UNKNOWN"

Lowered(r) ==
    [c \in DOMAIN r |-> IF c = "Air Pollutant" THEN str_lower(r[c]) ELSE r[c]]

classify_quality_no_skip(f) ==
    IF ~is_loaded(f)
    THEN [outcome |-> "ValueError", frame |-> f]
    ELSE [outcome |-> "ok",
          frame |-> AqFrame(f.cols \cup {"Quality"},
                        [i \in 1..Len(f.rows) |->
                            WithQuality(Lowered(f.rows[i]),
                                        get_quality(Lowered(f.rows[i])))])]

classify_quality(f) ==
    IF ~is_loaded(f)
    THEN [outcome |-> "ValueError", frame |-> f]
    ELSE IF "Quality" \in f.cols
    THEN [outcome |-> "ok", frame |-> f]
    ELSE [outcome |-> "ok",
          frame |-> AqFrame(f.cols \cup {"Quality"},
                        [i \in 1..Len(f.rows) |->
                            WithQuality(Lowered(f.rows[i]),
                                        get_quality(Lowered(f.rows[i])))])]

\* load_csv_files assigns the table read before it validates it.
air_load_csv_files(file, f) ==
    IF ~file.present
    THEN [outcome |-> "FileNotFoundError", frame |-> f]
    ELSE IF file.rows = <<>>
    THEN [outcome |-> "ValueError", frame |-> AqFrame(RawAqCols, <<>>)]
    ELSE [outcome |-> "ok", frame |-> AqFrame(DOMAIN file.rows[1], file.rows)]

AirStart ==
    /\ processor = "AirQualityProcessor"
    /\ aq_file \in AqFiles
    /\ air_quality_df = NoneFrame
    /\ aq_before = NoneFrame
    /\ aq_last = "none"
    /\ aq_outcome = "none"

AirLoadCsvFiles ==
    /\ processor = "AirQualityProcessor"
    /\ LET l == air_load_csv_files(aq_file, air_quality_df) IN
        /\ aq_before' = air_quality_df
        /\ air_quality_df' = l.frame
        /\ aq_outcome' = l.outcome
        /\ aq_last' = "load_csv_files"
    /\ UNCHANGED aq_file
    /\ UNCHANGED <<mapperVars, mergeVars, cleanVars, socioVars, healthVars, processor,
                   processed_file, runVars>>

\* A caller that sets _air_quality_df itself on a new processor whose data
\* folder has no raw file.
AirAssignFrame ==
    /\ processor = "AirQualityProcessor"
    /\ aq_last = "none"
    /\ ~aq_file.present
    /\ \E f \in AssignedFrames :
        /\ aq_before' = air_quality_df
        /\ air_quality_df' = f
    /\ aq_outcome' = "ok"
    /\ aq_last' = "assign"
    /\ UNCHANGED aq_file
    /\ UNCHANGED <<mapperVars, mergeVars, cleanVars, socioVars, healthVars, processor,
                   processed_file, runVars>>

AirClassifyQuality ==
    /\ processor = "AirQualityProcessor"
    /\ LET c == classify_quality(air_quality_df) IN
        /\ aq_before' = air_quality_df
        /\ air_quality_df' = c.frame
        /\ aq_outcome' = c.outcome
        /\ aq_last' = "classify_quality"
    /\ UNCHANGED aq_file
    /\ UNCHANGED <<mapperVars, mergeVars, cleanVars, socioVars, healthVars, processor,
                   processed_file, runVars>>

\* BaseProcessor._save_dataframe_to_csv: nothing is written for None or an
\* empty table; otherwise the table is written as it is.
NoFile == [written |-> FALSE, cols |-> <<>>, rows |-> <<>>]
save_dataframe_to_csv(f, file) ==
    IF f.isNone \/ Len(f.rows) = 0
    THEN [outcome |-> "ValueError", file |-> file]
    ELSE [outcome |-> "ok",
          file |-> [written |-> TRUE, cols |-> f.cols, rows |-> f.rows]]

AirSaveProcessedFile ==
    /\ processor = "AirQualityProcessor"
    /\ LET w == save_dataframe_to_csv(air_quality_df, processed_file) IN
        /\ processed_file' = w.file
        /\ aq_outcome' = w.outcome
    /\ aq_before' = air_quality_df
    /\ aq_last' = "save_processed_file"
    /\ UNCHANGED <<aq_file, air_quality_df>>
    /\ UNCHANGED <<mapperVars, mergeVars, cleanVars, socioVars, healthVars, processor, runVars>>

AirNext ==
    \/ AirLoadCsvFiles \/ AirAssignFrame \/ AirClassifyQuality
    \/ AirSaveProcessedFile

(***************************************************************************)
(*                       SocioeconomicProcessor                            *)
(*                                                                         *)
(* A table is [isNone, cols, rows] with cols the column labels in order    *)
(* and each row a function of the labels.  A date is <<year, month, day>>. *)
(***************************************************************************)
MaxWideRows == 2

SocioProvinces == {"Alava", "Madrid"}
PibValues == {10, 20, NaN}
\* Column labels of the raw file after the Provincia column.
ValueHeaders ==
    {<<>>, <<"2000">>, <<"2000", "2021">>, <<"2021", "2000">>, <<"2000", "Total">>}
SeqRange(q) == {q[i] : i \in 1..Len(q)}
WideRows(h) ==
    {[c \in {"Provincia"} \cup SeqRange(h) |->
        IF c = "Provincia" THEN k[1] ELSE k[2][c]] :
            k \in SocioProvinces \X [SeqRange(h) -> PibValues]}
SocioFilesFor(h) ==
    {[present |-> TRUE, cols |-> <<"Provincia">> \o h, rows |-> rs] :
        rs \in SeqsUpTo(WideRows(h), MaxWideRows)}
SocioFiles ==
    {[present |-> FALSE, cols |-> <<>>, rows |-> <<>>]}
        \cup UNION {SocioFilesFor(h) : h \in ValueHeaders}

NoSocioFrame == [isNone |-> TRUE, cols |-> <<>>, rows |-> <<>>]
DataFrame(cols, rows) == [isNone |-> FALSE, cols |-> cols, rows |-> rows]

socio_is_loaded(f) == ~f.isNone /\ Len(f.rows) > 0 /\ Len(f.cols) > 0

\* load_csv_files assigns the table read before it validates it.
socio_load_csv_files(file, f) ==
    IF ~file.present
    THEN [outcome |-> "FileNotFoundError", frame |-> f]
    ELSE IF file.rows = <<>>
    THEN [outcome |-> "ValueError", frame |-> DataFrame(file.cols, <<>>)]
    ELSE [outcome |-> "ok", frame |-> DataFrame(file.cols, file.rows)]

\* strptime with format '%Y'.
IsYear(h) == h \in {"2000", "2021"}
to_datetime(h) ==
    CASE h = "2000" -> <<2000, 1, 1>>
      [] h = "2021" -> <<2021, 1, 1>>

LongRow(province, anio, pib) ==
    [c \in {"Province", "anio", "pib"} |->
        IF c = "Province" THEN province ELSE IF c = "anio" THEN anio ELSE pib]

\* DataFrame.melt(id_vars='Provincia', var_name='anio') followed by the two
\* renames: the value columns in order, under each one the rows in order.
melt_dropna(f) ==
    LET value_vars == SelectSeq(f.cols, LAMBDA c : c # "Provincia")
        P == Len(f.rows)
        all == [n \in 1..(P * Len(value_vars)) |->
                   LET j == ((n - 1) \div P) + 1
                       r == ((n - 1) % P) + 1 IN
                   LongRow(f.rows[r]["Provincia"], value_vars[j],
                           f.rows[r][value_vars[j]])] IN
    DataFrame(<<"Province", "anio", "pib">>,
              SelectSeq(all, LAMBDA row : row["pib"] # NaN))

melt(f) ==
    LET value_vars == SelectSeq(f.cols, LAMBDA c : c # "Provincia")
        P == Len(f.rows) IN
    DataFrame(<<"Province", "anio", "pib">>,
              [n \in 1..(P * Len(value_vars)) |->
                   LET j == ((n - 1) \div P) + 1
                       r == ((n - 1) % P) + 1 IN
                   LongRow(f.rows[r]["Provincia"], value_vars[j],
                           f.rows[r][value_vars[j]])])

\* melt raises KeyError when the table has no Provincia column; to_datetime
\* raises ValueError on a label that is not a year, after the melted table
\* has been assigned.
tranform_dataframe(f) ==
    IF ~socio_is_loaded(f)
    THEN [outcome |-> "ValueError", frame |-> f]
    ELSE IF "Provincia" \notin SeqRange(f.cols)
    THEN [outcome |-> "KeyError", frame |-> f]
    ELSE LET m == melt(f) IN
         IF \E i \in 1..Len(m.rows) : ~IsYear(m.rows[i]["anio"])
         THEN [outcome |-> "ValueError", frame |-> m]
         ELSE [outcome |-> "ok",
               frame |-> DataFrame(m.cols,
                            [i \in 1..Len(m.rows) |->
                                LongRow(m.rows[i]["Province"],
                                        to_datetime(m.rows[i]["anio"]),
                                        m.rows[i]["pib"])])]

SocioStart ==
    /\ processor = "SocioeconomicProcessor"
    /\ socio_file \in SocioFiles
    /\ socio_df = NoSocioFrame
    /\ socio_before = NoSocioFrame
    /\ socio_last = "none"
    /\ socio_outcome = "none"

SocioLoadCsvFiles ==
    /\ processor = "SocioeconomicProcessor"
    /\ LET l == socio_load_csv_files(socio_file, socio_df) IN
        /\ socio_before' = socio_df
        /\ socio_df' = l.frame
        /\ socio_outcome' = l.outcome
        /\ socio_last' = "load_csv_files"
    /\ UNCHANGED socio_file
    /\ UNCHANGED <<mapperVars, mergeVars, cleanVars, airVars, healthVars, processor,
                   processed_file, runVars>>

SocioTranformDataframe ==
    /\ processor = "SocioeconomicProcessor"
    /\ LET t == tranform_dataframe(socio_df) IN
        /\ socio_before' = socio_df
        /\ socio_df' = t.frame
        /\ socio_outcome' = t.outcome
        /\ socio_last' = "tranform_dataframe"
    /\ UNCHANGED socio_file
    /\ UNCHANGED <<mapperVars, mergeVars, cleanVars, airVars, healthVars, processor,
                   processed_file, runVars>>

SocioSaveProcessedFile ==
    /\ processor = "SocioeconomicProcessor"
    /\ LET w == save_dataframe_to_csv(socio_df, processed_file) IN
        /\ processed_file' = w.file
        /\ socio_outcome' = w.outcome
    /\ socio_before' = socio_df
    /\ socio_last' = "save_processed_file"
    /\ UNCHANGED <<socio_file, socio_df>>
    /\ UNCHANGED <<mapperVars, mergeVars, cleanVars, airVars, healthVars, processor, runVars>>

SocioNext == SocioLoadCsvFiles \/ SocioTranformDataframe \/ SocioSaveProcessedFile

(***************************************************************************)
(*                           HealthProcessor                               *)
(*                                                                         *)
(* Periodo is the year of the parsed date.  Every respiratory row has the  *)
(* same Causa de muerte, Sexo and Total, every life-expectancy row the     *)
(* same Sexo and Total.                                                    *)
(***************************************************************************)
MaxSubRows == 2

RawProvincias == {"02 Albacete", "13 Ciudad Real"}
Periodos == {2020, 2021}
RespCols == <<"Causa de muerte", "Sexo", "Provincias", "Periodo", "Total">>
LifeCols == <<"Sexo", "Provincias", "Periodo", "Total">>
HealthCols4 == <<"Province", "Periodo", "Respiratory_diseases_total", "Life_expectancy_total">>
RespTotal == 397
LifeTotal == 83

RespRow(k) ==
    [c \in SeqRange(RespCols) |->
        CASE c = "Causa de muerte" -> "062-067"
          [] c = "Sexo"            -> "Total"
          [] c = "Provincias"      -> k[1]
          [] c = "Periodo"         -> k[2]
          [] c = "Total"           -> RespTotal]
LifeRow(k) ==
    [c \in SeqRange(LifeCols) |->
        CASE c = "Sexo"       -> "Ambos sexos"
          [] c = "Provincias" -> k[1]
          [] c = "Periodo"    -> k[2]
          [] c = "Total"      -> LifeTotal]
HealthFilesOf(rows) ==
    {[present |-> FALSE, rows |-> <<>>]}
        \cup {[present |-> TRUE, rows |-> rs] : rs \in SeqsUpTo(rows, MaxSubRows)}
RespFiles == HealthFilesOf({RespRow(k) : k \in RawProvincias \X Periodos})
LifeFiles == HealthFilesOf({LifeRow(k) : k \in RawProvincias \X Periodos})

health_is_loaded(resp, life) ==
    /\ ~resp.isNone /\ Len(resp.rows) > 0
    /\ ~life.isNone /\ Len(life.rows) > 0

\* Both tables are assigned before either is validated.
health_load_csv_files(rf, lf, resp, life) ==
    IF ~rf.present \/ ~lf.present
    THEN [outcome |-> "FileNotFoundError", resp |-> resp, life |-> life]
    ELSE [outcome |-> IF rf.rows = <<>> \/ lf.rows = <<>> THEN "ValueError" ELSE "ok",
          resp |-> DataFrame(RespCols, rf.rows),
          life |-> DataFrame(LifeCols, lf.rows)]

\* Series.str.replace(r'[0-9\s]+', '', regex=True)
str_replace_codes(p) ==
    CASE p = "02 Albacete"    -> "Albacete"
      [] p = "13 Ciudad Real" -> "CiudadReal"
      [] OTHER                 -> p

RenameCol(c, old, new) == IF c = old THEN new ELSE c
RenameRow(row, cols, old, new) ==
    [c \in {RenameCol(x, old, new) : x \in SeqRange(cols)} |->
        IF c = new THEN row[old] ELSE row[c]]
rename(f, old, new) ==
    IF old \notin SeqRange(f.cols) THEN f
    ELSE DataFrame([i \in 1..Len(f.cols) |-> RenameCol(f.cols[i], old, new)],
                   [i \in 1..Len(f.rows) |-> RenameRow(f.rows[i], f.cols, old, new)])

clean_provincias(f) ==
    IF "Provincias" \notin SeqRange(f.cols) THEN f
    ELSE rename(DataFrame(f.cols,
                    [i \in 1..Len(f.rows) |->
                        [c \in SeqRange(f.cols) |->
                            IF c = "Provincias"
                            THEN str_replace_codes(f.rows[i][c])
                            ELSE f.rows[i][c]]]),
                "Provincias", "Province")

clean_dataframes_unguarded(resp, life) ==
    [outcome |-> "ok",
     resp |-> DataFrame(clean_provincias(resp).cols, clean_provincias(resp).rows),
     life |-> DataFrame(clean_provincias(life).cols, clean_provincias(life).rows)]

clean_dataframes(resp, life) ==
    IF ~health_is_loaded(resp, life)
    THEN [outcome |-> "ValueError", resp |-> resp, life |-> life]
    ELSE [outcome |-> "ok", resp |-> clean_provincias(resp),
          life |-> clean_provincias(life)]

\* The (Province, Periodo) keys in the order pd.merge sorts them.
SortedHealthKeys ==
    <<<<"Albacete", 2020>>, <<"Albacete", 2021>>,
      <<"Ciudad Real", 2020>>, <<"Ciudad Real", 2021>>,
      <<"CiudadReal", 2020>>, <<"CiudadReal", 2021>>>>
HealthKey(row) == <<row["Province"], row["Periodo"]>>
HealthRow(k, resp_total, life_total) ==
    [c \in SeqRange(HealthCols4) |->
        CASE c = "Province"                   -> k[1]
          [] c = "Periodo"                    -> k[2]
          [] c = "Respiratory_diseases_total" -> resp_total
          [] c = "Life_expectancy_total"      -> life_total]
RECURSIVE Flatten(_)
Flatten(qq) == IF qq = <<>> THEN <<>> ELSE Head(qq) \o Flatten(Tail(qq))

\* The rows pd.merge(how=...) gives for one key, after the drop of the Sexo
\* and Causa de muerte columns: every pairing of the left and right rows of
\* the key, or the rows of one side with the other metric missing.
KeyRows(k, left, right, how) ==
    LET l == SelectSeq(left, LAMBDA row : HealthKey(row) = k)
        r == SelectSeq(right, LAMBDA row : HealthKey(row) = k) IN
    IF l # <<>> /\ r # <<>>
    THEN [n \in 1..(Len(l) * Len(r)) |->
            HealthRow(k, l[((n - 1) \div Len(r)) + 1]["Respiratory_diseases_total"],
                         r[((n - 1) % Len(r)) + 1]["Life_expectancy_total"])]
    ELSE IF l # <<>>
    THEN [n \in 1..Len(l) |-> HealthRow(k, l[n]["Respiratory_diseases_total"], NaN)]
    ELSE IF how = "outer"
    THEN [n \in 1..Len(r) |-> HealthRow(k, NaN, r[n]["Life_expectancy_total"])]
    ELSE <<>>

health_merge(resp, life, how) ==
    IF ~health_is_loaded(resp, life)
    THEN [outcome |-> "ValueError", changed |-> FALSE, frame |-> NoSocioFrame]
    ELSE LET respiratory_df == rename(resp, "Total", "Respiratory_diseases_total")
             life_exp_df == rename(life, "Total", "Life_expectancy_total") IN
         IF "Province" \notin SeqRange(resp.cols) \/ "Province" \notin SeqRange(life.cols)
         THEN [outcome |-> "KeyError", changed |-> FALSE, frame |-> NoSocioFrame]
         ELSE [outcome |-> "ok", changed |-> TRUE,
               frame |-> DataFrame(HealthCols4,
                            Flatten([i \in 1..Len(SortedHealthKeys) |->
                                KeyRows(SortedHealthKeys[i], respiratory_df.rows,
                                        life_exp_df.rows, how)]))]

merge_dataframes_left(resp, life) == health_merge(resp, life, "left")

merge_dataframes(resp, life) == health_merge(resp, life, "outer")

HealthStart ==
    /\ processor = "HealthProcessor"
    /\ resp_file \in RespFiles
    /\ life_file \in LifeFiles
    /\ respiratory_diseases_df = NoSocioFrame
    /\ life_expectancy_df = NoSocioFrame
    /\ hp_health_df = NoSocioFrame
    /\ health_before = <<>>
    /\ health_last = "none"
    /\ health_outcome = "none"

HealthSnapshot == <<respiratory_diseases_df, life_expectancy_df, hp_health_df>>

HealthLoadCsvFiles ==
    /\ processor = "HealthProcessor"
    /\ LET l == health_load_csv_files(resp_file, life_file,
                    respiratory_diseases_df, life_expectancy_df) IN
        /\ respiratory_diseases_df' = l.resp
        /\ life_expectancy_df' = l.life
        /\ health_outcome' = l.outcome
    /\ health_before' = HealthSnapshot
    /\ health_last' = "load_csv_files"
    /\ UNCHANGED <<resp_file, life_file, hp_health_df>>
    /\ UNCHANGED <<mapperVars, mergeVars, cleanVars, airVars, socioVars, processor,
                   processed_file, runVars>>

HealthCleanDataframes ==
    /\ processor = "HealthProcessor"
    /\ LET c == clean_dataframes(respiratory_diseases_df, life_expectancy_df) IN
        /\ respiratory_diseases_df' = c.resp
        /\ life_expectancy_df' = c.life
        /\ health_outcome' = c.outcome
    /\ health_before' = HealthSnapshot
    /\ health_last' = "clean_dataframes"
    /\ UNCHANGED <<resp_file, life_file, hp_health_df>>
    /\ UNCHANGED <<mapperVars, mergeVars, cleanVars, airVars, socioVars, processor,
                   processed_file, runVars>>

HealthMergeDataframes ==
    /\ processor = "HealthProcessor"
    /\ LET m == merge_dataframes(respiratory_diseases_df, life_expectancy_df) IN
        /\ hp_health_df' = IF m.changed THEN m.frame ELSE hp_health_df
        /\ health_outcome' = m.outcome
    /\ health_before' = HealthSnapshot
    /\ health_last' = "merge_dataframes"
    /\ UNCHANGED <<resp_file, life_file, respiratory_diseases_df, life_expectancy_df>>
    /\ UNCHANGED <<mapperVars, mergeVars, cleanVars, airVars, socioVars, processor,
                   processed_file, runVars>>

HealthSaveProcessedFile ==
    /\ processor = "HealthProcessor"
    /\ LET w == save_dataframe_to_csv(hp_health_df, processed_file) IN
        /\ processed_file' = w.file
        /\ health_outcome' = w.outcome
    /\ health_before' = HealthSnapshot
    /\ health_last' = "save_processed_file"
    /\ UNCHANGED <<resp_file, life_file, respiratory_diseases_df, life_expectancy_df,
                   hp_health_df>>
    /\ UNCHANGED <<mapperVars, mergeVars, cleanVars, airVars, socioVars, processor, runVars>>

HealthNext ==
    \/ HealthLoadCsvFiles \/ HealthCleanDataframes \/ HealthMergeDataframes
    \/ HealthSaveProcessedFile

ProcStart ==
    \/ AirStart /\ SocioIdle /\ HealthIdle
    \/ AirIdle /\ SocioStart /\ HealthIdle
    \/ AirIdle /\ SocioIdle /\ HealthStart
ProcNext == AirNext \/ SocioNext \/ HealthNext
ProcInit ==
    /\ MapperIdle /\ MergeIdle /\ CleanIdle
    /\ ProcStart
    /\ processed_file = NoFile
    /\ RunIdle
ProcSpec == ProcInit /\ [][ProcNext]_vars

(***************************************************************************)
(*                         run_data_processing                             *)
(*                                                                         *)
(* The whole run of main.py: the three processors one after the other,     *)
(* then the merge, the cleaning pass and the two writes of the final       *)
(* dataset.  The tables travel in memory from one stage to the next.  The  *)
(* year columns (Year, Periodo, anio) are parsed dates of the first day of *)
(* a year and are compared by their year.                                  *)
(***************************************************************************)

\* The stages in the order of AirQualityProcessor.process (lines 187-190),
\* HealthProcessor.process (lines 221-225), SocioeconomicProcessor.process
\* (lines 135-138) and main.py lines 84-103.
RunOrder ==
    <<"Air.load_csv_files", "Air.classify_quality", "Air.map_province_names",
      "Air.save_processed_file",
      "Health.load_csv_files", "Health.clean_dataframes", "Health.map_province_names",
      "Health.merge_dataframes", "Health.save_processed_file",
      "Socio.load_csv_files", "Socio.tranform_dataframe", "Socio.map_province_names",
      "Socio.save_processed_file",
      "merge_all_data", "clean_dataset", "to_csv dated", "to_csv">>

StageIndex(stage) == CHOOSE i \in 1..Len(RunOrder) : RunOrder[i] = stage
NextStage(stage) ==
    IF StageIndex(stage) < Len(RunOrder) THEN RunOrder[StageIndex(stage) + 1]
    ELSE "returned"

\* a handler that logs the error and carries on
after_stage_swallowed(result, stage) == NextStage(stage)

\* except Exception: log, raise (process() and main.py lines 108-110)
after_stage(result, stage) == IF result = "ok" THEN NextStage(stage) ELSE "raised"

\* one stage invoked with the given result
Invoked(stage, result) ==
    /\ run_pc = stage
    /\ run_calls' = Append(run_calls, stage)
    /\ run_pc' = after_stage(result, stage)
    /\ run_error' = IF result = "ok" THEN run_error
                    ELSE [stage |-> stage, exception |-> result]

\* province_mapper.py lines 57-75 on the rows of a table
map_rows(cache, src, hasProvince, rows) ==
    IF ~hasProvince THEN
        [outcome |-> "KeyError", dict |-> cache, read |-> 0, rows |-> rows, warned |-> {}]
    ELSE LET l == load_json_file(cache, src) IN
         IF l.result # "ok" THEN
             [outcome |-> l.result, dict |-> l.dict, read |-> l.read, rows |-> rows,
              warned |-> {}]
         ELSE LET m   == province_mapping(l.dict)
                  out == [i \in 1..Len(rows) |->
                            [c \in DOMAIN rows[i] |->
                                IF c = "Province"
                                THEN replace(m, astype_str(rows[i][c]))
                                ELSE rows[i][c]]]
              IN  [outcome |-> "ok", dict |-> l.dict, read |-> l.read, rows |-> out,
                   warned |-> check_provinces(l.dict,
                                  [i \in 1..Len(out) |-> out[i]["Province"]])]

\* the processors' tables as the merger and the cleaner read them
AsTable(cols, rows) ==
    Table(cols,
          [i \in 1..Len(rows) |->
              [c \in DOMAIN rows[i] |->
                  IF c = "anio" THEN dt_year(rows[i][c]) ELSE rows[i][c]]])

\* The files of one run.
RunAqRow(p) ==
    [c \in RawAqCols \cup {"Province", "Year"} |->
        CASE c = "Air Pollutant"       -> "NO2"
          [] c = "Air Pollution Level" -> 41
          [] c = "Province"            -> p
          [] c = "Year"                -> 2020]
RunAqFiles ==
    {[present |-> FALSE, rows |-> <<>>], [present |-> TRUE, rows |-> <<>>]}
        \cup {[present |-> TRUE, rows |-> <<RunAqRow(p)>>] :
                p \in {"CiudadReal", "Las Palmas", NULL}}
        \cup {[present |-> TRUE, rows |-> <<RunAqRow(NULL), RunAqRow("CiudadReal")>>]}
RunRespFiles ==
    {[present |-> FALSE, rows |-> <<>>], [present |-> TRUE, rows |-> <<>>],
     [present |-> TRUE, rows |-> <<RespRow(<<"13 Ciudad Real", 2020>>)>>]}
RunLifeFiles ==
    {[present |-> FALSE, rows |-> <<>>], [present |-> TRUE, rows |-> <<>>],
     [present |-> TRUE, rows |-> <<LifeRow(<<"13 Ciudad Real", 2020>>)>>]}
RunSocioFiles ==
    {[present |-> FALSE, cols |-> <<>>, rows |-> <<>>],
     [present |-> TRUE, cols |-> <<"Provincia", "2021">>,
      rows |-> <<[c \in {"Provincia", "2021"} |->
                    IF c = "Provincia" THEN "Madrid" ELSE 10]>>],
     [present |-> TRUE, cols |-> <<"Provincia", "2000", "Total">>,
      rows |-> <<[c \in {"Provincia", "2000", "Total"} |->
                    IF c = "Provincia" THEN "Madrid" ELSE 10]>>]}
RunSources ==
    {[present |-> FALSE, table |-> NoDict]}
        \cup {[present |-> TRUE,
               table |-> [loaded |-> TRUE, n |-> n,
                          head |-> <<[province |-> "Ciudad Real",
                                      aliases |-> {"CiudadReal"}]>>]] :
                n \in {ExpectedProvinces - 1, ExpectedProvinces}}

RunInit ==
    /\ source \in RunSources
    /\ unified_province_dict = NoDict /\ reads = 0 /\ warned = {}
    /\ df_in = NoFrame /\ df = NoFrame /\ ret = NoFrame
    /\ outcome = "none" /\ loadResult = "not called" /\ dictAtCall = NoDict
    /\ MergeIdle /\ CleanIdle
    /\ aq_file \in RunAqFiles
    /\ air_quality_df = NoneFrame /\ aq_before = NoneFrame
    /\ aq_last = "none" /\ aq_outcome = "none"
    /\ resp_file \in RunRespFiles /\ life_file \in RunLifeFiles
    /\ respiratory_diseases_df = NoSocioFrame /\ life_expectancy_df = NoSocioFrame
    /\ hp_health_df = NoSocioFrame
    /\ health_before = <<>> /\ health_last = "none" /\ health_outcome = "none"
    /\ socio_file \in RunSocioFiles
    /\ socio_df = NoSocioFrame /\ socio_before = NoSocioFrame
    /\ socio_last = "none" /\ socio_outcome = "none"
    /\ processor = "none" /\ processed_file = NoFile
    /\ run_pc = RunOrder[1]
    /\ run_calls = <<>>
    /\ run_error = [stage |-> "none", exception |-> "none"]
    /\ run_files = {}

mapperState == <<source, unified_province_dict, reads, warned>>
mapperTrace == <<df_in, df, ret, outcome, loadResult, dictAtCall>>
airTrace    == <<aq_before, aq_last, aq_outcome>>
socioTrace  == <<socio_before, socio_last, socio_outcome>>
healthTrace == <<health_before, health_last, health_outcome>>
runFixed    == <<mapperTrace, airTrace, socioTrace, healthTrace, processor,
                 processed_file, aq_file, resp_file, life_file, socio_file>>

\* AirQualityProcessor.process, lines 187-190
RunAirLoad ==
    /\ LET l == air_load_csv_files(aq_file, air_quality_df) IN
        /\ Invoked("Air.load_csv_files", l.outcome)
        /\ air_quality_df' = l.frame
    /\ UNCHANGED <<mapperState, mergeVars, cleanVars, runFixed, run_files>>
    /\ UNCHANGED <<respiratory_diseases_df, life_expectancy_df, hp_health_df, socio_df>>

RunAirClassify ==
    /\ LET c == classify_quality(air_quality_df) IN
        /\ Invoked("Air.classify_quality", c.outcome)
        /\ air_quality_df' = c.frame
    /\ UNCHANGED <<mapperState, mergeVars, cleanVars, runFixed, run_files>>
    /\ UNCHANGED <<respiratory_diseases_df, life_expectancy_df, hp_health_df, socio_df>>

RunAirMap ==
    /\ LET r == map_rows(unified_province_dict, source,
                         "Province" \in air_quality_df.cols, air_quality_df.rows) IN
        /\ Invoked("Air.map_province_names", r.outcome)
        /\ air_quality_df' = [air_quality_df EXCEPT !.rows = r.rows]
        /\ unified_province_dict' = r.dict
        /\ reads' = reads + r.read
        /\ warned' = warned \cup r.warned
    /\ UNCHANGED <<source, mergeVars, cleanVars, runFixed, run_files>>
    /\ UNCHANGED <<respiratory_diseases_df, life_expectancy_df, hp_health_df, socio_df>>

RunAirSave ==
    /\ LET w == save_dataframe_to_csv(air_quality_df, NoFile) IN
        /\ Invoked("Air.save_processed_file", w.outcome)
        /\ run_files' = IF w.outcome = "ok" THEN run_files \cup {"air_quality.csv"}
                        ELSE run_files
    /\ UNCHANGED <<mapperState, mergeVars, cleanVars, runFixed>>
    /\ UNCHANGED <<air_quality_df, respiratory_diseases_df, life_expectancy_df,
                   hp_health_df, socio_df>>

\* HealthProcessor.process, lines 221-225
RunHealthLoad ==
    /\ LET l == health_load_csv_files(resp_file, life_file,
                    respiratory_diseases_df, life_expectancy_df) IN
        /\ Invoked("Health.load_csv_files", l.outcome)
        /\ respiratory_diseases_df' = l.resp
        /\ life_expectancy_df' = l.life
    /\ UNCHANGED <<mapperState, mergeVars, cleanVars, runFixed, run_files>>
    /\ UNCHANGED <<air_quality_df, hp_health_df, socio_df>>

RunHealthClean ==
    /\ LET c == clean_dataframes(respiratory_diseases_df, life_expectancy_df) IN
        /\ Invoked("Health.clean_dataframes", c.outcome)
        /\ respiratory_diseases_df' = c.resp
        /\ life_expectancy_df' = c.life
    /\ UNCHANGED <<mapperState, mergeVars, cleanVars, runFixed, run_files>>
    /\ UNCHANGED <<air_quality_df, hp_health_df, socio_df>>

\* lines 204-205: the respiratory table, then the life-expectancy table
RunHealthMap ==
    /\ LET r1 == map_rows(unified_province_dict, source,
                          "Province" \in SeqRange(respiratory_diseases_df.cols),
                          respiratory_diseases_df.rows)
           r2 == map_rows(r1.dict, source,
                          "Province" \in SeqRange(life_expectancy_df.cols),
                          life_expectancy_df.rows)
       IN
        IF r1.outcome # "ok" THEN
            /\ Invoked("Health.map_province_names", r1.outcome)
            /\ unified_province_dict' = r1.dict
            /\ reads' = reads + r1.read
            /\ UNCHANGED <<respiratory_diseases_df, life_expectancy_df, warned>>
        ELSE
            /\ Invoked("Health.map_province_names", r2.outcome)
            /\ respiratory_diseases_df' = [respiratory_diseases_df EXCEPT !.rows = r1.rows]
            /\ life_expectancy_df' = [life_expectancy_df EXCEPT !.rows = r2.rows]
            /\ unified_province_dict' = r2.dict
            /\ reads' = reads + r1.read + r2.read
            /\ warned' = warned \cup r1.warned \cup r2.warned
    /\ UNCHANGED <<source, mergeVars, cleanVars, runFixed, run_files>>
    /\ UNCHANGED <<air_quality_df, hp_health_df, socio_df>>

RunHealthMerge ==
    /\ LET m == merge_dataframes(respiratory_diseases_df, life_expectancy_df) IN
        /\ Invoked("Health.merge_dataframes", m.outcome)
        /\ hp_health_df' = IF m.changed THEN m.frame ELSE hp_health_df
    /\ UNCHANGED <<mapperState, mergeVars, cleanVars, runFixed, run_files>>
    /\ UNCHANGED <<air_quality_df, respiratory_diseases_df, life_expectancy_df, socio_df>>

RunHealthSave ==
    /\ LET w == save_dataframe_to_csv(hp_health_df, NoFile) IN
        /\ Invoked("Health.save_processed_file", w.outcome)
        /\ run_files' = IF w.outcome = "ok" THEN run_files \cup {"health.csv"}
                        ELSE run_files
    /\ UNCHANGED <<mapperState, mergeVars, cleanVars, runFixed>>
    /\ UNCHANGED <<air_quality_df, respiratory_diseases_df, life_expectancy_df,
                   hp_health_df, socio_df>>

\* SocioeconomicProcessor.process, lines 135-138
RunSocioLoad ==
    /\ LET l == socio_load_csv_files(socio_file, socio_df) IN
        /\ Invoked("Socio.load_csv_files", l.outcome)
        /\ socio_df' = l.frame
    /\ UNCHANGED <<mapperState, mergeVars, cleanVars, runFixed, run_files>>
    /\ UNCHANGED <<air_quality_df, respiratory_diseases_df, life_expectancy_df,
                   hp_health_df>>

RunSocioTransform ==
    /\ LET t == tranform_dataframe(socio_df) IN
        /\ Invoked("Socio.tranform_dataframe", t.outcome)
        /\ socio_df' = t.frame
    /\ UNCHANGED <<mapperState, mergeVars, cleanVars, runFixed, run_files>>
    /\ UNCHANGED <<air_quality_df, respiratory_diseases_df, life_expectancy_df,
                   hp_health_df>>

RunSocioMap ==
    /\ LET r == map_rows(unified_province_dict, source,
                         "Province" \in SeqRange(socio_df.cols), socio_df.rows) IN
        /\ Invoked("Socio.map_province_names", r.outcome)
        /\ socio_df' = [socio_df EXCEPT !.rows = r.rows]
        /\ unified_province_dict' = r.dict
        /\ reads' = reads + r.read
        /\ warned' = warned \cup r.warned
    /\ UNCHANGED <<source, mergeVars, cleanVars, runFixed, run_files>>
    /\ UNCHANGED <<air_quality_df, respiratory_diseases_df, life_expectancy_df,
                   hp_health_df>>

RunSocioSave ==
    /\ LET w == save_dataframe_to_csv(socio_df, NoFile) IN
        /\ Invoked("Socio.save_processed_file", w.outcome)
        /\ run_files' = IF w.outcome = "ok" THEN run_files \cup {"socioeconomic.csv"}
                        ELSE run_files
    /\ UNCHANGED <<mapperState, mergeVars, cleanVars, runFixed>>
    /\ UNCHANGED <<air_quality_df, respiratory_diseases_df, life_expectancy_df,
                   hp_health_df, socio_df>>

\* main.py lines 84-86: the merged table is what the cleaner will receive
RunMergeAllData ==
    /\ LET a == AsTable(air_quality_df.cols, air_quality_df.rows)
           h == AsTable(SeqRange(hp_health_df.cols), hp_health_df.rows)
           s == AsTable(SeqRange(socio_df.cols), socio_df.rows)
           m == merge_all_data(a, h, s)
       IN
        /\ Invoked("merge_all_data", m.outcome)
        /\ merge_args' = <<a, h, s>>
        /\ mergeOutcome' = m.outcome
        /\ joins' = m.joins
        /\ merged_df' = m.result
        /\ dataset_in' = [dtype |-> "int64", rows |-> m.result.rows]
    /\ UNCHANGED <<airquality_df, health_df, socioeconomic_df>>
    /\ UNCHANGED <<dataset, cleanPc, nullBranch, cleanLog, recleaned>>
    /\ UNCHANGED <<mapperState, runFixed, run_files>>
    /\ UNCHANGED <<air_quality_df, respiratory_diseases_df, life_expectancy_df,
                   hp_health_df, socio_df>>

\* main.py line 93
RunCleanDataset ==
    /\ Invoked("clean_dataset", "ok")
    /\ clean_dataset(dataset_in)
    /\ UNCHANGED <<mapperState, mergeVars, runFixed, run_files>>
    /\ UNCHANGED <<air_quality_df, respiratory_diseases_df, life_expectancy_df,
                   hp_health_df, socio_df>>

\* main.py lines 98-99: dataset_<timestamp>.csv
RunWriteDated ==
    /\ Invoked("to_csv dated", "ok")
    /\ run_files' = run_files \cup {"dataset_<timestamp>.csv"}
    /\ UNCHANGED <<mapperState, mergeVars, cleanVars, runFixed>>
    /\ UNCHANGED <<air_quality_df, respiratory_diseases_df, life_expectancy_df,
                   hp_health_df, socio_df>>

\* main.py lines 102-103: dataset.csv
RunWriteLatest ==
    /\ Invoked("to_csv", "ok")
    /\ run_files' = run_files \cup {"dataset.csv"}
    /\ UNCHANGED <<mapperState, mergeVars, cleanVars, runFixed>>
    /\ UNCHANGED <<air_quality_df, respiratory_diseases_df, life_expectancy_df,
                   hp_health_df, socio_df>>

RunNext ==
    \/ RunAirLoad \/ RunAirClassify \/ RunAirMap \/ RunAirSave
    \/ RunHealthLoad \/ RunHealthClean \/ RunHealthMap \/ RunHealthMerge
    \/ RunHealthSave
    \/ RunSocioLoad \/ RunSocioTransform \/ RunSocioMap \/ RunSocioSave
    \/ RunMergeAllData \/ RunCleanDataset \/ RunWriteDated \/ RunWriteLatest

RunSpec == RunInit /\ [][RunNext]_vars

(***************************************************************************)
(*                     Properties of ProvinceMapper                        *)
(***************************************************************************)

\* a map_province_name call has been made with a Province column
Called == outcome # "none" /\ df_in.hasProvince

\* C1: for every alias a listed under canonical province p in the loaded
\* table, a returning map_province_name call has replaced every Province
\* cell equal to a by p, for every (p, a) pair of the table.
C1_AliasResolvesToOwner ==
    (Called /\ outcome = "ok") =>
        \A i \in 1..Len(unified_province_dict.head) :
            \A a \in unified_province_dict.head[i].aliases :
                \A j \in 1..Len(df_in.cells) :
                    df_in.cells[j] = a
                        => ret.cells[j] = unified_province_dict.head[i].province

\* C2: a call that got its alias table does not raise, and every Province
\* cell holding a string that is in no alias list is found unchanged at
\* the same position of the output.
C2_UnknownCellKept ==
    (Called /\ loadResult = "ok") =>
        /\ outcome = "ok"
        /\ Len(ret.cells) = Len(df_in.cells)
        /\ \A j \in 1..Len(df_in.cells) :
              (df_in.cells[j] # NULL /\ df_in.cells[j] \notin Aliases(unified_province_dict))
                  => ret.cells[j] = df_in.cells[j]

\* C2 witness: "something" went through a table that has aliases and was kept
C2_Witness ==
    /\ Called /\ outcome = "ok"
    /\ Aliases(unified_province_dict) # {}
    /\ \E j \in 1..Len(df_in.cells) :
          df_in.cells[j] = "something" /\ ret.cells[j] = "something"

\* C3: _load_json_file raises when the mapping source is absent or has a
\* number of canonical entries other than 52, and completes without error
\* when the source has exactly 52 entries.
C3_LoadValidatesCardinality ==
    Called =>
        /\ (~source.present) => loadResult = "FileNotFoundError"
        /\ (source.present /\ num_provinces(source.table) # ExpectedProvinces)
              => loadResult = "ValueError"
        /\ (source.present /\ num_provinces(source.table) = ExpectedProvinces)
              => loadResult = "ok"

\* C4: no call performs a resolution with a cached table whose number of
\* canonical entries is not 52; every call made while the mapping source
\* has another cardinality ends in the fatal error.
C4_NoResolutionWithBadTable ==
    Called =>
        /\ outcome = "ok" => num_provinces(unified_province_dict) = ExpectedProvinces
        /\ (source.present /\ num_provinces(source.table) # ExpectedProvinces)
              => outcome = "ValueError"

\* C5: the alias table is not read before the first map_province_name
\* call, is read from the file at most once per process, and once the
\* cache is populated no operation changes its contents or reads again.
C5_LoadedOnceNeverMutated ==
    [][ /\ (outcome = "none" => (reads = 0 /\ ~unified_province_dict.loaded))
        /\ reads' <= 1
        /\ unified_province_dict.loaded
              => (unified_province_dict' = unified_province_dict /\ reads' = reads) ]_vars

\* C5 witness: a call that found the cache populated has resolved names
C5_Witness ==
    /\ Called /\ outcome = "ok"
    /\ dictAtCall.loaded /\ reads = 1
    /\ unified_province_dict = dictAtCall
    /\ \E j \in 1..Len(df_in.cells) : ret.cells[j] # df_in.cells[j]

(***************************************************************************)
(*                       Properties of DataMerger                          *)
(***************************************************************************)

\* the arguments of the merge_all_data call that was made
ArgA == merge_args[1]
ArgH == merge_args[2]
ArgS == merge_args[3]

\* number of positions of a sequence that satisfy a test
CountRows(rows, Test(_)) == Cardinality({i \in 1..Len(rows) : Test(rows[i])})

Max(x, y) == IF x >= y THEN x ELSE y

\* C6: merge_all_data is primary-preserving: for a non-empty air-quality
\* table the result has at least as many rows, every air-quality row
\* appears in the result, and every (Province, Year) key of a result row is
\* the key of some air-quality row.
C6_PrimaryPreserving ==
    (mergeOutcome = "ok" /\ Len(ArgA.rows) > 0) =>
        /\ Len(merged_df.rows) >= Len(ArgA.rows)
        /\ \A i \in 1..Len(ArgA.rows) :
              \E j \in 1..Len(merged_df.rows) :
                  Restrict(merged_df.rows[j], ArgA.cols) = ArgA.rows[i]
        /\ \A j \in 1..Len(merged_df.rows) :
              \E i \in 1..Len(ArgA.rows) :
                  /\ merged_df.rows[j].Province = ArgA.rows[i].Province
                  /\ merged_df.rows[j].Year = ArgA.rows[i].Year

\* C6 witness: a merge where one air-quality row has no health match and
\* the health and socioeconomic tables carry a key the air-quality table
\* does not have
C6_Witness ==
    /\ mergeOutcome = "ok"
    /\ Len(ArgA.rows) = 2
    /\ \E i \in 1..Len(ArgA.rows) :
          Matches(ArgA.rows[i], ArgH, <<"Province", "Year">>, <<"Province", "Periodo">>) = <<>>
    /\ \E p \in 1..Len(ArgH.rows) : \A i \in 1..Len(ArgA.rows) :
          <<ArgH.rows[p].Province, ArgH.rows[p].Periodo>>
              # <<ArgA.rows[i].Province, ArgA.rows[i].Year>>
    /\ \E q \in 1..Len(ArgS.rows) : \A i \in 1..Len(ArgA.rows) :
          <<ArgS.rows[q].Province, ArgS.rows[q].anio>>
              # <<ArgA.rows[i].Province, ArgA.rows[i].Year>>

\* the health (socioeconomic) rows a primary row is combined with
HealthFor(a) ==
    LET ms == Matches(a, ArgH, <<"Province", "Year">>, <<"Province", "Periodo">>)
    IN  IF ms = <<>> THEN <<NaNRow(ArgH.cols)>> ELSE ms
SocioFor(a) ==
    LET ms == Matches(a, ArgS, <<"Province", "Year">>, <<"Province", "anio">>)
    IN  IF ms = <<>> THEN <<NaNRow(ArgS.cols)>> ELSE ms

\* the result row of one combination
ExpectedRow(a, h, s) ==
    Restrict(Combine(Combine(a, h), s),
             (ArgA.cols \cup ArgH.cols \cup ArgS.cols) \ {"Periodo", "anio"})

\* C7: a primary row whose key matches k health rows and m socioeconomic
\* rows produces exactly max(1,k) * max(1,m) result rows, one per
\* combination of matches (no match is deduplicated), and a table without
\* a match contributes null metric columns.
C7_CartesianExpansion ==
    mergeOutcome = "ok" =>
        \A i \in 1..Len(ArgA.rows) :
            LET a == ArgA.rows[i]
                c == CountRows(ArgA.rows, LAMBDA r : r = a)
                k == Len(Matches(a, ArgH, <<"Province", "Year">>, <<"Province", "Periodo">>))
                m == Len(Matches(a, ArgS, <<"Province", "Year">>, <<"Province", "anio">>))
                hs == HealthFor(a)
                ss == SocioFor(a)
            IN  /\ CountRows(merged_df.rows, LAMBDA r : Restrict(r, ArgA.cols) = a)
                      = c * Max(1, k) * Max(1, m)
                /\ \A p \in 1..Len(hs) : \A q \in 1..Len(ss) :
                      CountRows(merged_df.rows, LAMBDA r : r = ExpectedRow(a, hs[p], ss[q]))
                          = c * CountRows(hs, LAMBDA r : r = hs[p])
                              * CountRows(ss, LAMBDA r : r = ss[q])

\* C7 witness: one primary row with two health and two socioeconomic
\* matches, another with no match at all
C7_Witness ==
    /\ mergeOutcome = "ok"
    /\ \E i \in 1..Len(ArgA.rows) :
          /\ Len(Matches(ArgA.rows[i], ArgH, <<"Province", "Year">>, <<"Province", "Periodo">>)) = 2
          /\ Len(Matches(ArgA.rows[i], ArgS, <<"Province", "Year">>, <<"Province", "anio">>)) = 2
    /\ \E i \in 1..Len(ArgA.rows) :
          /\ Matches(ArgA.rows[i], ArgH, <<"Province", "Year">>, <<"Province", "Periodo">>) = <<>>
          /\ Matches(ArgA.rows[i], ArgS, <<"Province", "Year">>, <<"Province", "anio">>) = <<>>
    /\ Len(merged_df.rows) = 5

\* some input table lacks one of its key columns
KeyColumnMissing ==
    \/ {"Province", "Year"} \ ArgA.cols # {}
    \/ {"Province", "Periodo"} \ ArgH.cols # {}
    \/ {"Province", "anio"} \ ArgS.cols # {}

\* C8: when an input table lacks a required key column, merge_all_data
\* raises before any join; no merged table is produced and the three
\* inputs are unchanged.
C8_ValidationBeforeJoin ==
    (mergeOutcome # "none" /\ KeyColumnMissing) =>
        /\ mergeOutcome = "ValueError"
        /\ joins = 0
        /\ merged_df = NoTable
        /\ <<airquality_df, health_df, socioeconomic_df>> = merge_args

\* C8 witness: only the socioeconomic table is short of a column
C8_Witness ==
    /\ mergeOutcome = "ValueError"
    /\ "anio" \notin ArgS.cols
    /\ {"Province", "Year"} \subseteq ArgA.cols
    /\ {"Province", "Periodo"} \subseteq ArgH.cols

\* three one-row tables sharing a resolved province and the year
OneRowScenario ==
    /\ mergeOutcome # "none"
    /\ ~KeyColumnMissing
    /\ Len(ArgA.rows) = 1 /\ Len(ArgH.rows) = 1 /\ Len(ArgS.rows) = 1
    /\ ArgA.rows[1].Province # NULL
    /\ ArgH.rows[1].Province = ArgA.rows[1].Province
    /\ ArgS.rows[1].Province = ArgA.rows[1].Province
    /\ ArgH.rows[1].Periodo = ArgA.rows[1].Year
    /\ ArgS.rows[1].anio = ArgA.rows[1].Year

\* C9: three one-row tables with the same resolved province and year merge
\* into exactly one row whose pollution, health and economic metrics are
\* all non-null, and Periodo and anio are absent from the result.
C9_OneRowScenario ==
    OneRowScenario =>
        /\ mergeOutcome = "ok"
        /\ Len(merged_df.rows) = 1
        /\ merged_df.rows[1]["Air Pollution Level"] # NaN
        /\ merged_df.rows[1].Respiratory_diseases_total # NaN
        /\ merged_df.rows[1].Life_expectancy_total # NaN
        /\ merged_df.rows[1].pib # NaN
        /\ {"Periodo", "anio"} \cap merged_df.cols = {}
        /\ {"Periodo", "anio"} \cap DOMAIN merged_df.rows[1] = {}

\* C9 witness: the scenario has been merged
C9_Witness ==
    /\ OneRowScenario
    /\ mergeOutcome = "ok"
    /\ merged_df.rows[1].Province = "Madrid"
    /\ merged_df.rows[1].pib # NaN

(***************************************************************************)
(*                     Properties of DatasetCleaner                        *)
(***************************************************************************)

\* the table after the null-province step
AfterNullStep == cleanLog[1]

\* C10: with f the fraction of input rows whose Province is null, the
\* null-province step removes nothing when f = 0, removes exactly the
\* null-Province rows when 0 < f < 5%, and removes no row and records a
\* warning when f >= 5% (5% included).
C10_NullProvinceThreshold ==
    (cleanPc = "done" /\ Len(dataset_in.rows) > 0) =>
        LET n == Len(dataset_in.rows)
            z == NullCount(dataset_in.rows)
        IN  /\ z = 0 => (AfterNullStep = dataset_in /\ nullBranch # "warning")
            /\ (z > 0 /\ 20 * z < n) =>
                  /\ AfterNullStep.rows
                        = SelectSeq(dataset_in.rows, LAMBDA r : r.Province # NULL)
                  /\ nullBranch # "warning"
            /\ 20 * z >= n => (AfterNullStep = dataset_in /\ nullBranch = "warning")

\* C10 witness: one missing province in 21 rows has been removed
C10_Witness ==
    /\ cleanPc = "done"
    /\ Len(dataset_in.rows) = 21
    /\ NullCount(dataset_in.rows) = 1
    /\ Len(AfterNullStep.rows) = 20
    /\ nullBranch = "removed"

\* the calendar year a Year cell of the cleaned table denotes
CalendarYear(r) == IF dataset_in.dtype = "datetime64" THEN r.Year[1] ELSE r.Year

\* the same table with the Year column in the other representation
Twin(ds) ==
    IF ds.dtype = "datetime64"
    THEN [dtype |-> "int64",
          rows |-> [i \in 1..Len(ds.rows) |-> [ds.rows[i] EXCEPT !.Year = ds.rows[i].Year[1]]]]
    ELSE [dtype |-> "datetime64",
          rows |-> [i \in 1..Len(ds.rows) |->
                      [ds.rows[i] EXCEPT !.Year = <<ds.rows[i].Year, 12, 31>>]]]

\* the Value cells of a table, which number the input rows
ValuesOf(ds) == {ds.rows[i].Value : i \in 1..Len(ds.rows)}

\* C11: the output of clean_dataset has no row whose Province is an island
\* province, an autonomous city or one of the two unknown sentinels,
\* whatever the other fields and the null-province fraction.
C11_NoExcludedProvince ==
    cleanPc = "done" =>
        \A i \in 1..Len(dataset.rows) :
            dataset.rows[i].Province \notin
                {"Santa Cruz de Tenerife", "Las Palmas", "Illes Balears", "Ceuta",
                 "Melilla", "Desconocido", "Error"}

\* C11 witness: an 'Error' row and a 'Ceuta' row went in while the null
\* fraction was at or above the threshold
C11_Witness ==
    /\ cleanPc = "done"
    /\ nullBranch = "warning"
    /\ \E i \in 1..Len(dataset_in.rows) : dataset_in.rows[i].Province = "Error"
    /\ \E i \in 1..Len(dataset_in.rows) : dataset_in.rows[i].Province = NULL
    /\ Len(dataset.rows) < Len(dataset_in.rows)

\* C12: the year filter keeps a row exactly when its calendar year is in
\* 2000..2022, and decides alike for a date-typed and an integer-typed
\* Year of the same calendar year.
C12_YearFilter ==
    cleanPc = "done" =>
        /\ dataset.rows = SelectSeq(cleanLog[3].rows,
                            LAMBDA r : 2000 <= CalendarYear(r) /\ CalendarYear(r) <= 2022)
        /\ ValuesOf(filter_timeframe(Twin(cleanLog[3]))) = ValuesOf(dataset)

\* C12 witness: a date-typed table with the years 2022 (kept) and 2023 (removed)
C12_Witness ==
    /\ cleanPc = "done"
    /\ dataset_in.dtype = "datetime64"
    /\ \E i \in 1..Len(dataset_in.rows) :
          dataset_in.rows[i].Year[1] = 2022 /\ dataset_in.rows[i].Value \in ValuesOf(dataset)
    /\ \E i \in 1..Len(dataset_in.rows) :
          dataset_in.rows[i].Year[1] = 2023 /\ dataset_in.rows[i].Value \notin ValuesOf(dataset)

\* the canonical provinces among CleanProvinces
CleanCanonical == {"Madrid", "Ceuta"}

\* C13 as stated: every returned row has a canonical, non-excluded Province
\* (neither null nor an unresolved string) and a Year within 2000..2022.
C13_CanonicalProvinceAndYear ==
    cleanPc = "done" =>
        \A i \in 1..Len(dataset.rows) :
            /\ dataset.rows[i].Province \in CleanCanonical
            /\ dataset.rows[i].Province \notin (island_provinces \cup undefined_provinces)
            /\ 2000 <= CalendarYear(dataset.rows[i])
            /\ CalendarYear(dataset.rows[i]) <= 2022

\* C13 amended: every returned row has a Province outside the exclusion
\* set and a Year within 2000..2022; the Province may be an unresolved
\* string, and it may be null only when at least 5% of the input rows had
\* a null Province.
C13_NotExcludedAndYear ==
    cleanPc = "done" =>
        \A i \in 1..Len(dataset.rows) :
            /\ dataset.rows[i].Province \notin (island_provinces \cup undefined_provinces)
            /\ 2000 <= CalendarYear(dataset.rows[i])
            /\ CalendarYear(dataset.rows[i]) <= 2022
            /\ dataset.rows[i].Province = NULL
                  => 20 * NullCount(dataset_in.rows) >= Len(dataset_in.rows)

\* C13 witness: a null and an unresolved Province are in the returned table
C13_Witness ==
    /\ cleanPc = "done"
    /\ \E i \in 1..Len(dataset.rows) : dataset.rows[i].Province = NULL
    /\ \E i \in 1..Len(dataset.rows) : dataset.rows[i].Province = "something"

\* rows is a subsequence of the input: every row is the input row its
\* Value numbers, and the Values increase
SubsequenceOfInput(rows) ==
    /\ \A i \in 1..Len(rows) :
          /\ rows[i].Value \in 1..Len(dataset_in.rows)
          /\ rows[i] = dataset_in.rows[rows[i].Value]
    /\ \A i, j \in 1..Len(rows) : i < j => rows[i].Value < rows[j].Value

\* C14: the output of clean_dataset is a subsequence of its input: rows
\* are unchanged, none is added or duplicated, and the survivors keep
\* their input order after each of the four steps.
C14_OutputIsSubsequence ==
    cleanPc = "done" =>
        /\ \A k \in 1..4 : SubsequenceOfInput(cleanLog[k].rows)
        /\ SubsequenceOfInput(dataset.rows)
        /\ dataset.dtype = dataset_in.dtype

\* C14 witness: rows were removed by the exclusion and by the year filter
\* and at least two rows survive
C14_Witness ==
    /\ cleanPc = "done"
    /\ Len(cleanLog[3].rows) < Len(dataset_in.rows)
    /\ Len(dataset.rows) < Len(cleanLog[3].rows)
    /\ Len(dataset.rows) >= 2


(***************************************************************************)
(*                  Properties of AirQualityProcessor                      *)
(***************************************************************************)
\* The last call was a classify_quality that ran its classification pass.
Classified ==
    /\ aq_last = "classify_quality"
    /\ aq_outcome = "ok"
    /\ "Quality" \notin aq_before.cols

\* The label of the bucket t_i <= v < t_(i+1), the last bucket unbounded.
LowerInclusiveLabel(p, v) ==
    LET bins == quality_thresholds[p] IN
    quality_labels[CHOOSE i \in 1..Len(bins) :
                        /\ bins[i] <= v
                        /\ (i < Len(bins) => v < bins[i + 1])]

\* C15: classify_quality gives a row of pollutant p and level v >= 0 the
\* label L_i exactly when t_i <= v < t_(i+1): level 0 is 'BUENA', the no2
\* level 40 is 'RAZONABLEMENTE BUENA', a level at or above t_5 is
\* 'EXTREMADAMENTE DESFAVORABLE', and every such row gets one of the six
\* labels.
C15_LowerInclusiveBuckets ==
    Classified =>
        \A i \in 1..Len(air_quality_df.rows) :
            LET p == str_lower(aq_before.rows[i]["Air Pollutant"])
                v == aq_before.rows[i]["Air Pollution Level"] IN
            (p \in DOMAIN quality_thresholds /\ v # NaN /\ v >= 0)
                => air_quality_df.rows[i]["Quality"] = LowerInclusiveLabel(p, v)

\* C16: a row whose pollutant has no threshold list gets 'UNKNOWN'; the
\* call does not raise and every other row is still classified from its own
\* pollutant and level.
C16_UnknownPollutant ==
    (aq_last = "classify_quality" /\ is_loaded(aq_before)
        /\ "Quality" \notin aq_before.cols) =>
        /\ aq_outcome = "ok"
        /\ Len(air_quality_df.rows) = Len(aq_before.rows)
        /\ \A i \in 1..Len(aq_before.rows) :
            LET p == str_lower(aq_before.rows[i]["Air Pollutant"])
                v == aq_before.rows[i]["Air Pollution Level"] IN
            IF p \in DOMAIN quality_thresholds
            THEN air_quality_df.rows[i]["Quality"]
                    = pd_cut(v, quality_thresholds[p], quality_labels)
            ELSE air_quality_df.rows[i]["Quality"] = "UNKNOWN"

C16_Witness ==
    /\ Classified
    /\ Len(air_quality_df.rows) = 2
    /\ air_quality_df.rows[1]["Air Pollutant"] = "co"
    /\ air_quality_df.rows[1]["Quality"] = "UNKNOWN"
    /\ air_quality_df.rows[2]["Air Pollutant"] = "no2"
    /\ air_quality_df.rows[2]["Quality"] = "EXTREMADAMENTE DESFAVORABLE"

\* C17: a classify_quality call on a loaded table that already has a
\* Quality column returns normally and leaves the table as it found it, so
\* a second call leaves the table of the first call.
C17_ClassifyIdempotent ==
    (aq_last = "classify_quality" /\ is_loaded(aq_before)
        /\ "Quality" \in aq_before.cols) =>
        /\ aq_outcome = "ok"
        /\ air_quality_df = aq_before

C17_Witness ==
    /\ aq_last = "classify_quality"
    /\ is_loaded(aq_before)
    /\ "Quality" \in aq_before.cols
    /\ \E i \in 1..Len(aq_before.rows) :
        aq_before.rows[i]["Quality"] # get_quality(Lowered(aq_before.rows[i]))

(***************************************************************************)
(*                 Properties of SocioeconomicProcessor                    *)
(***************************************************************************)
Transformed == socio_last = "tranform_dataframe" /\ socio_outcome = "ok"
YearColumns(f) == SelectSeq(f.cols, LAMBDA c : c # "Provincia")
\* The long row of the cell in row r, year column h of the wide table f.
CellRow(f, r, h) == LongRow(f.rows[r]["Provincia"], to_datetime(h), f.rows[r][h])
CountLong(rows, row) == Cardinality({i \in 1..Len(rows) : rows[i] = row})
KeyedByProvince(f) ==
    \A r1, r2 \in 1..Len(f.rows) :
        f.rows[r1]["Provincia"] = f.rows[r2]["Provincia"] => r1 = r2
\* Pivot of the long rows by Province and anio: the values found for a key.
PivotCell(rows, province, anio) ==
    {rows[i]["pib"] : i \in {n \in 1..Len(rows) :
                                /\ rows[n]["Province"] = province
                                /\ rows[n]["anio"] = anio}}

\* C18: tranform_dataframe turns a wide table of P province rows and Y year
\* columns into exactly P*Y long rows, one per (province, year) cell with
\* that cell's value; pivoting the long table by Province and anio gives,
\* for a wide table with one row per province, the same provinces, the
\* same year columns and the same value in every cell.
C18_MeltRoundTrip ==
    Transformed =>
        LET wide == socio_before
            long == socio_df.rows
            years == YearColumns(wide)
            P == Len(wide.rows)
            Y == Len(years) IN
        /\ Len(long) = P * Y
        /\ \A r \in 1..P : \A j \in 1..Y :
            CountLong(long, CellRow(wide, r, years[j]))
                = Cardinality({c \in (1..P) \X (1..Y) :
                    CellRow(wide, c[1], years[c[2]]) = CellRow(wide, r, years[j])})
        /\ KeyedByProvince(wide) =>
            /\ \A r \in 1..P : \A j \in 1..Y :
                PivotCell(long, wide.rows[r]["Provincia"], to_datetime(years[j]))
                    = {wide.rows[r][years[j]]}
            /\ {long[i]["anio"] : i \in 1..Len(long)}
                    = {to_datetime(years[j]) : j \in 1..Y}
            /\ Y > 0 => {long[i]["Province"] : i \in 1..Len(long)}
                            = {wide.rows[r]["Provincia"] : r \in 1..P}

C18_Witness ==
    /\ Transformed
    /\ socio_before.cols = <<"Provincia", "2021", "2000">>
    /\ Len(socio_before.rows) = 2
    /\ KeyedByProvince(socio_before)
    /\ socio_before.rows[1]["2021"] = 20
    /\ socio_before.rows[1]["2000"] = 10
    /\ socio_before.rows[2]["2000"] = NaN
    /\ Len(socio_df.rows) = 4

(***************************************************************************)
(*                     Properties of HealthProcessor                       *)
(***************************************************************************)
Merged == health_last = "merge_dataframes" /\ health_outcome = "ok"
KeysOf(rows) == {HealthKey(rows[i]) : i \in 1..Len(rows)}

\* C19: the (Province, Periodo) keys of the table merge_dataframes produces
\* are the union of the keys of the two sub-tables; a key of only one
\* sub-table appears with the other sub-table's metric null and its own
\* metric kept, and no key of either sub-table is dropped.
C19_OuterJoinKeys ==
    Merged =>
        LET resp == health_before[1].rows
            life == health_before[2].rows
            out == hp_health_df.rows IN
        /\ KeysOf(out) = KeysOf(resp) \cup KeysOf(life)
        /\ \A i \in 1..Len(out) :
            /\ out[i]["Respiratory_diseases_total"]
                = IF HealthKey(out[i]) \in KeysOf(resp) THEN RespTotal ELSE NaN
            /\ out[i]["Life_expectancy_total"]
                = IF HealthKey(out[i]) \in KeysOf(life) THEN LifeTotal ELSE NaN

C19_Witness ==
    /\ Merged
    /\ KeysOf(health_before[1].rows) = {<<"Albacete", 2020>>, <<"CiudadReal", 2020>>}
    /\ KeysOf(health_before[2].rows) = {<<"Albacete", 2020>>, <<"Albacete", 2021>>}
    /\ Len(hp_health_df.rows) = 3

(***************************************************************************)
(*                  Properties of the three processors                     *)
(***************************************************************************)
\* C20: classify_quality, clean_dataframes and tranform_dataframe, called
\* on a processor whose load has not succeeded or whose loaded table is
\* empty, raise ValueError and leave the processor's tables as they were.
C20_TransformNeedsLoadedData ==
    /\ (aq_last = "classify_quality" /\ ~is_loaded(aq_before)) =>
            /\ aq_outcome = "ValueError"
            /\ air_quality_df = aq_before
    /\ (health_last = "clean_dataframes"
            /\ ~health_is_loaded(health_before[1], health_before[2])) =>
            /\ health_outcome = "ValueError"
            /\ HealthSnapshot = health_before
    /\ (socio_last = "tranform_dataframe" /\ ~socio_is_loaded(socio_before)) =>
            /\ socio_outcome = "ValueError"
            /\ socio_df = socio_before

C20_Witness ==
    /\ health_last = "clean_dataframes"
    /\ health_outcome = "ValueError"
    /\ ~health_before[1].isNone
    /\ Len(health_before[1].rows) = 2
    /\ ~health_before[2].isNone
    /\ health_before[2].rows = <<>>

(***************************************************************************)
(*                 Properties of DatasetCleaner, continued                 *)
(***************************************************************************)
\* C29: clean_dataset called on its own result returns that result, also
\* when the first call kept the null-Province rows (5% or more of its
\* input) while it removed other rows.
C29_CleanIdempotent ==
    cleanPc = "again" => recleaned = dataset

\* C29, amended: clean_dataset called on its own result returns that result
\* when the result has no null-Province row or at least 5% of them;
\* otherwise the second call removes the null-Province rows that the first
\* call kept, and nothing else.
C29_CleanIdempotentAboveThreshold ==
    cleanPc = "again" =>
        IF NullCount(dataset.rows) = 0
              \/ 100 * NullCount(dataset.rows) >= NullThreshold * Len(dataset.rows)
        THEN recleaned = dataset
        ELSE recleaned.rows = SelectSeq(dataset.rows, LAMBDA r : r.Province # NULL)

C29_Witness ==
    /\ cleanPc = "again"
    /\ nullBranch = "warning"
    /\ NullCount(dataset.rows) > 0
    /\ Len(dataset.rows) > 1
    /\ Len(dataset.rows) < Len(dataset_in.rows)
    /\ dataset.rows[1].Province # dataset.rows[Len(dataset.rows)].Province
    /\ recleaned = dataset

(***************************************************************************)
(*                 Properties of ProvinceMapper, continued                 *)
(***************************************************************************)
\* C23: map_province_name, merge_all_data and clean_dataset leave the table
\* they receive unchanged and return a new table: after the call the
\* caller's table has the columns and cell values it had before.
C23_ReceivedTableUnchanged ==
    /\ (Called /\ outcome = "ok") => df = df_in
    /\ mergeOutcome # "none"
          => <<airquality_df, health_df, socioeconomic_df>> = merge_args

\* C25: map_province_name called with a table that has no Province column
\* raises KeyError before the alias table is loaded or consulted; the table
\* and the alias-table cache are after the call what they were before it.
C25_NoProvinceColumn ==
    (outcome # "none" /\ ~df_in.hasProvince) =>
        /\ outcome = "KeyError"
        /\ loadResult = "not called"
        /\ df = df_in
        /\ unified_province_dict = dictAtCall

C25_Witness ==
    /\ outcome = "KeyError"
    /\ ~df_in.hasProvince
    /\ source.present
    /\ num_provinces(source.table) = ExpectedProvinces
    /\ ~unified_province_dict.loaded

\* C30: for every alias table the load accepts, map_province_name applied
\* to the table it returned changes no Province cell.
C30_MapIdempotent ==
    [][ (/\ outcome = "ok"
         /\ num_provinces(unified_province_dict) = ExpectedProvinces
         /\ df_in' = ret
         /\ outcome' = "ok") => ret' = ret ]_vars

(***************************************************************************)
(*               Properties of the three processors, continued             *)
(***************************************************************************)
\* C21: save_processed_file of every processor raises ValueError and writes
\* no file unless the transform and province-resolution steps have
\* completed; in particular the call that directly follows a successful
\* load_csv_files raises and writes nothing.
C21_SaveNeedsProcessing ==
    [][ /\ (aq_last = "load_csv_files" /\ aq_outcome = "ok"
                /\ aq_last' = "save_processed_file")
            => (aq_outcome' = "ValueError" /\ processed_file' = processed_file)
        /\ (socio_last = "load_csv_files" /\ socio_outcome = "ok"
                /\ socio_last' = "save_processed_file")
            => (socio_outcome' = "ValueError" /\ processed_file' = processed_file)
        /\ (health_last = "load_csv_files" /\ health_outcome = "ok"
                /\ health_last' = "save_processed_file")
            => (health_outcome' = "ValueError" /\ processed_file' = processed_file)
      ]_vars

\* Both sub-tables are loaded and have been through clean_dataframes.
LoadedAndCleaned(resp, life) ==
    /\ health_is_loaded(resp, life)
    /\ "Province" \in SeqRange(resp.cols)
    /\ "Province" \in SeqRange(life.cols)

\* C26: merge_dataframes raises ValueError whenever the two sub-tables have
\* not both been loaded and cleaned, and then leaves health_df as it was
\* (unset when the call follows a successful load_csv_files).
C26_MergeNeedsCleanedTables ==
    (health_last = "merge_dataframes"
        /\ ~LoadedAndCleaned(health_before[1], health_before[2])) =>
        /\ health_outcome = "ValueError"
        /\ hp_health_df = health_before[3]

\* The province text without its numeric code and the separator after it.
WithoutCode(p) ==
    CASE p = "02 Albacete"    -> "Albacete"
      [] p = "13 Ciudad Real" -> "Ciudad Real"
      [] OTHER                 -> p

\* C27: clean_dataframes removes from each province text of both sub-tables
\* only the numeric code and the separator after it; the rest of the name,
\* internal spaces included, is kept ('13 Ciudad Real' becomes
\* 'Ciudad Real').
C27_OnlyCodeStripped ==
    (health_last = "clean_dataframes" /\ health_outcome = "ok") =>
        \A t \in 1..2 :
            "Provincias" \in SeqRange(health_before[t].cols) =>
                \A i \in 1..Len(health_before[t].rows) :
                    HealthSnapshot[t].rows[i]["Province"]
                        = WithoutCode(health_before[t].rows[i]["Provincias"])

(***************************************************************************)
(*                   Properties of run_data_processing                     *)
(***************************************************************************)

Raised == run_pc = "raised"
Completed(stage) ==
    /\ \E i \in 1..Len(run_calls) : run_calls[i] = stage
    /\ run_error.stage # stage

\* C22: when a stage of run_data_processing raises, the error propagates
\* and the run has written no file, neither a per-source processed file
\* nor a final dataset file.
C22_NoArtifactOnFailure ==
    Raised => run_files = {}

\* C24: the stages are invoked in the fixed order, each at most once and
\* none before its predecessor returned; when a stage raises it is the last
\* stage invoked and the exception leaves the run, otherwise the run is at
\* the stage that follows the last one invoked.
C24_StagesInOrder ==
    /\ Len(run_calls) <= Len(RunOrder)
    /\ \A i \in 1..Len(run_calls) : run_calls[i] = RunOrder[i]
    /\ IF run_error.stage # "none"
       THEN /\ run_calls # <<>>
            /\ run_calls[Len(run_calls)] = run_error.stage
            /\ Raised
       ELSE run_pc = IF Len(run_calls) < Len(RunOrder)
                     THEN RunOrder[Len(run_calls) + 1] ELSE "returned"

C24_Witness ==
    /\ Raised
    /\ run_error = [stage |-> "Socio.tranform_dataframe", exception |-> "ValueError"]
    /\ Len(run_calls) = 11
    /\ run_files = {"air_quality.csv", "health.csv"}

NoNullProvince(rows) == \A i \in 1..Len(rows) : rows[i]["Province"] # NULL
HadNullProvince(rows) == \E i \in 1..Len(rows) : rows[i]["Province"] = NULL

\* C28: after map_province_name returned, no Province cell of the table is
\* null; a cell that was null in the source is the text 'nan' and is among
\* the names reported as unrecognized; the table the cleaner receives has no
\* null province, so its null-province step finds none.
C28_NoNullProvinceAfterMapping ==
    /\ Completed("Air.map_province_names") =>
          /\ NoNullProvince(air_quality_df.rows)
          /\ HadNullProvince(aq_file.rows) =>
                /\ "nan" \in warned
                /\ \E i \in 1..Len(air_quality_df.rows) :
                      /\ aq_file.rows[i]["Province"] = NULL
                      /\ air_quality_df.rows[i]["Province"] = "nan"
    /\ Completed("Health.map_province_names") =>
          /\ NoNullProvince(respiratory_diseases_df.rows)
          /\ NoNullProvince(life_expectancy_df.rows)
    /\ Completed("Socio.map_province_names") => NoNullProvince(socio_df.rows)
    /\ Completed("merge_all_data") => NullCount(dataset_in.rows) = 0
    /\ Completed("clean_dataset") => nullBranch = "none found"

C28_Witness ==
    /\ Completed("clean_dataset")
    /\ HadNullProvince(aq_file.rows)
    /\ \E i \in 1..Len(dataset_in.rows) : dataset_in.rows[i]["Province"] = "nan"
    /\ \E i \in 1..Len(dataset.rows) : dataset.rows[i]["Province"] = "nan"

====
